---- MODULE Spec2Model ----
(***************************************************************************)
(* Loan-management admin console (essa-admin).                             *)
(*                                                                         *)
(* The module models the three places that classify loans                  *)
(*   - the admin dashboard          (src/app/admin/dashboard.tsx, 159-777) *)
(*   - the overview API route       (src/app/api/admin/overview-data)      *)
(*   - the outstanding-management page (dashboard.tsx, 1514-1681)          *)
(* and the operations that write loan documents (preview modal             *)
(* Accept/Decline, Consider, payment recording, mark-as-finished).         *)
(*                                                                         *)
(* Instants are integers counted in clock ticks since the epoch; one day   *)
(* is DayTicks ticks (the code's 24*60*60*1000 with a millisecond tick).   *)
(* A JavaScript null / undefined instant is NullMs.  A Firestore document  *)
(* is a record that carries only the fields that are present.              *)
(***************************************************************************)
EXTENDS Integers, Sequences, FiniteSets, TLC

VARIABLES
  loan_applications,  \* collection "loan_applications": id -> document
  clock,              \* the wall clock read by Date.now() / new Date()
  page,               \* state of the page / route that classified last
  processed_loans,    \* collection "processed_loans": id -> document
  loan_payments,      \* the loan_payments subcollections, in order of creation
  modal,              \* LoanPreviewModal: loanId prop, component state, fetches
  cards,              \* LoanCard component state (busy, err) of each loan
  ops,                \* handlers suspended at an await
  alerts,             \* text of the last window.alert
  started,            \* number of user gestures handled so far
  decided,            \* history: the document a loan held when it was decided
  kyc_data,           \* collection "kyc_data": id -> document
  kycPending,         \* AdminDashboardPage state: rows of the kyc_data listener
  calculations,       \* collection group "calculations": id -> calculator proposal
  loan_issuing,       \* collection "loan_issuing": id -> decision record
  issuing,            \* AdminDashboardPage state: rows of the calculations listener
  feedback,           \* kind of the last pushFeedback
  auth,               \* Firebase Auth: the account signed in (auth.currentUser)
  localStorage        \* window.localStorage: key -> stored number

viewVars == <<loan_applications, clock, page>>
flowVars == <<processed_loans, loan_payments, modal, cards, ops, alerts, started, decided>>
issueVars == <<kyc_data, kycPending, calculations, loan_issuing, issuing, feedback>>
browserVars == <<auth, localStorage>>
vars == <<loan_applications, clock, page, processed_loans, loan_payments, modal, cards,
          ops, alerts, started, decided, kyc_data, kycPending, calculations, loan_issuing,
          issuing, feedback, auth, localStorage>>

----------------------------------------------------------------------------
(* Bounds of the model *)

DayTicks == 4        \* clock ticks per day
BaseDay  == 20000    \* day number (since 1970-01-01) at which the clock starts
MaxTicks == 1        \* how far the clock may advance
MaxFill  == 9        \* most loans of one repeated kind in a snapshot
MaxLoans == 2        \* loans of the workflow model
MaxOps   == 2        \* payment and close handlers started in one behaviour
MaxClicks == 4       \* dashboard gestures (open, close, Accept, Decline, Consider)
SliceLoans == 9      \* loans of a snapshot whose views are ordered
MaxSubmits == 2      \* submits of the login form in one behaviour
MaxKyc == 3          \* records of kyc_data

Day == DayTicks
T0  == BaseDay * DayTicks
NullMs == -1

----------------------------------------------------------------------------
(* JavaScript values *)

Has(d, f) == f \in DOMAIN d

\* { ...a, ...b }, and the document without fields
Merge(a, b) == [f \in DOMAIN a \cup DOMAIN b |-> IF f \in DOMAIN b THEN b[f] ELSE a[f]]
NoFields == [f \in {} |-> 0]

\* the null of an object-valued field or state
Null == [null |-> TRUE]
IsNull(v) == DOMAIN v = {"null"}

Min(a, b) == IF a <= b THEN a ELSE b
Max(a, b) == IF a >= b THEN a ELSE b

\* Array.prototype.slice(0, n)
Slice(s, n) == SubSeq(s, 1, Min(n, Len(s)))

Range(s) == {s[i] : i \in 1..Len(s)}

\* Array.prototype.filter
Filter(s, Keep(_)) == SelectSeq(s, Keep)

\* Array.prototype.sort with a numeric comparator key(a) - key(b): stable,
\* ascending in key.  key is a function on the elements of s.
RECURSIVE InsertSorted(_, _, _)
InsertSorted(x, s, key) ==
  IF s = <<>> THEN <<x>>
  ELSE IF key[Head(s)] <= key[x] THEN <<Head(s)>> \o InsertSorted(x, Tail(s), key)
       ELSE <<x>> \o s

RECURSIVE SortByKey(_, _)
SortByKey(s, key) ==
  IF s = <<>> THEN <<>>
  ELSE InsertSorted(s[Len(s)], SortByKey(SubSeq(s, 1, Len(s) - 1), key), key)

SortAsc(s, Key(_)) == SortByKey(s, [r \in Range(s) |-> Key(r)])

\* Array.prototype.reduce((s, r) => s + val(r), 0)
RECURSIVE SumByVal(_, _)
SumByVal(s, val) == IF s = <<>> THEN 0 ELSE val[Head(s)] + SumByVal(Tail(s), val)

SumSeq(s, Val(_)) == SumByVal(s, [r \in Range(s) |-> Val(r)])

\* String.prototype.toLowerCase on the status strings of the model
LowerOf == [Approved |-> "approved", Active |-> "active", APPROVED |-> "approved",
            Closed |-> "closed", Completed |-> "completed", Finished |-> "finished",
            Weekly |-> "weekly", Monthly |-> "monthly", COMPLETE |-> "complete",
            Ann |-> "ann", Banda |-> "banda", ANN |-> "ann", Phiri |-> "phiri"]
toLowerCase(s) == IF s \in DOMAIN LowerOf THEN LowerOf[s] ELSE s

\* String.prototype.trim on the names of the model
TrimOf == (" Ann " :> "Ann") @@ ("Banda " :> "Banda") @@ ("  " :> "")
          @@ (" admin@essa.mw " :> "admin@essa.mw")
trim(s) == IF s \in DOMAIN TrimOf THEN TrimOf[s] ELSE s

\* String.prototype.split(/\s+/) on the trimmed full names of the model
WordsOf == ("Ann Banda" :> <<"Ann", "Banda">>) @@ ("" :> <<>>)
split(s) == IF s \in DOMAIN WordsOf THEN WordsOf[s] ELSE <<s>>

\* Array.prototype.join(" ") of at most two words
join(ws) == IF ws = <<>> THEN "" ELSE IF Len(ws) = 1 THEN ws[1]
            ELSE CHOOSE n \in DOMAIN WordsOf : WordsOf[n] = ws

----------------------------------------------------------------------------
(* Calendar arithmetic of the JavaScript Date (UTC, proleptic Gregorian) *)

DaysFromCivil(y, m, d) ==
  LET y2  == IF m <= 2 THEN y - 1 ELSE y
      era == y2 \div 400
      yoe == y2 - era * 400
      mp  == (m + 9) % 12
      doy == (153 * mp + 2) \div 5 + d - 1
      doe == yoe * 365 + yoe \div 4 - yoe \div 100 + doy
  IN era * 146097 + doe - 719468

CivilFromDays(z) ==
  LET z2  == z + 719468
      era == z2 \div 146097
      doe == z2 - era * 146097
      yoe == (doe - doe \div 1460 + doe \div 36524 - doe \div 146096) \div 365
      doy == doe - (365 * yoe + yoe \div 4 - yoe \div 100)
      mp  == (5 * doy + 2) \div 153
      d   == doy - (153 * mp + 2) \div 5 + 1
      m   == IF mp < 10 THEN mp + 3 ELSE mp - 9
      y   == yoe + era * 400
  IN [y |-> IF m <= 2 THEN y + 1 ELSE y, m |-> m, d |-> d]

\* end.setDate(end.getDate() + n)
setDate(ms, n) == ms + n * Day

\* end.setMonth(end.getMonth() + n): the month field is incremented and the
\* day of month is kept, overflowing into the following month
setMonth(ms, n) ==
  LET c  == CivilFromDays(ms \div Day)
      m0 == c.m - 1 + n
      y1 == c.y + m0 \div 12
      m1 == (m0 % 12) + 1
  IN (DaysFromCivil(y1, m1, 1) + c.d - 1) * Day + (ms % Day)

----------------------------------------------------------------------------
(* Timestamp-like values.  k is the JavaScript shape:                      *)
(*   "ts"  Firestore Timestamp (has toDate / toMillis)   "str" parsable    *)
(*   "num" finite number    "date" native Date    "secs" {seconds,..}      *)
(*   "badstr" unparsable string    "nan" non-finite number   "obj" other   *)
(*   "throws" object whose toDate method throws                            *)
(*   "null" null or undefined                                              *)
(* and ms is the instant the value stands for: for "secs" the seconds      *)
(* times 1000, rounded.                                                    *)

TsOf(k, ms) == [k |-> k, ms |-> ms]
NullTs == TsOf("null", NullMs)

\* JavaScript truthiness of a timestamp-like value
Truthy(v) == v.k \notin {"null", "nan"} /\ ~(v.k = "num" /\ v.ms = 0)

\* dashboard.tsx toMillis (both copies in the file are the same)
toMillis(v) ==
  IF ~Truthy(v) THEN NullMs
  ELSE IF v.k \in {"num", "str", "date", "ts", "secs"} THEN v.ms
       ELSE NullMs

\* route.ts toMillis: only v == null is tested first, there is no branch for
\* an object with a seconds field, and toDate is called inside the try
toMillisApi(v) ==
  IF v.k = "null" THEN NullMs
  ELSE IF v.k \in {"ts", "date", "num", "str"} THEN v.ms
       ELSE NullMs

\* first alias of the list that is present (neither undefined, null nor "");
\* none stands for the undefined that is returned when there is no such alias
RECURSIVE firstDefined(_, _, _)
firstDefined(v, names, none) ==
  IF names = <<>> THEN none
  ELSE IF Has(v, Head(names)) /\ v[Head(names)] # none THEN v[Head(names)]
       ELSE firstDefined(v, Tail(names), none)

\* dashboard.tsx computeEndDate
computeEndDate(ts, period, freq) ==
  LET startMs == toMillis(ts)
  IN IF startMs = NullMs \/ startMs = 0 \/ period <= 0 THEN NullMs
     ELSE IF freq = "weekly" THEN setDate(startMs, period * 7)
          ELSE setMonth(startMs, period)

\* route.ts computeEndDate: ts.toDate() is called on whatever is stored
computeEndDateApi(ts, period, freq) ==
  IF ~Truthy(ts) \/ period <= 0 THEN NullMs
  ELSE IF freq = "weekly" THEN setDate(ts.ms, period * 7)
       ELSE setMonth(ts.ms, period)

\* route.ts computeEndDate raises a TypeError when the stored timestamp has
\* no toDate method; GET then answers 500
computeEndDateApiThrows(ts, period) ==
  Truthy(ts) /\ period > 0 /\ ts.k # "ts"

\* an absent string field reads as undefined
undefined == "<undefined>"
Str(v, f) == IF Has(v, f) THEN v[f] ELSE undefined
Falsy(s) == s = undefined \/ s = ""

\* firstDefined over string fields: an alias that is absent or "" is skipped
RECURSIVE firstDefinedStr(_, _)
firstDefinedStr(v, names) ==
  IF names = <<>> THEN undefined
  ELSE IF Has(v, Head(names)) /\ v[Head(names)] # "" THEN v[Head(names)]
       ELSE firstDefinedStr(v, Tail(names))

\* a ?? b ?? ... ?? dflt: the first alias that is present, whatever its value
RECURSIVE Coalesce(_, _, _)
Coalesce(v, names, dflt) ==
  IF names = <<>> THEN dflt
  ELSE IF Has(v, Head(names)) THEN v[Head(names)]
       ELSE Coalesce(v, Tail(names), dflt)

\* a || b || ... || empty: the first alias that is present and not empty
RECURSIVE FirstTruthy(_, _, _)
FirstTruthy(v, names, empty) ==
  IF names = <<>> THEN empty
  ELSE IF Has(v, Head(names)) /\ v[Head(names)] # empty THEN v[Head(names)]
       ELSE FirstTruthy(v, Tail(names), empty)

\* dashboard.tsx extractNameArea (top-level aliases and the full-name fallback)
FirstAliases == <<"firstName", "applicantFirstName", "givenName">>
LastAliases  == <<"surname", "lastName", "applicantLastName", "familyName">>
AreaAliases  == <<"areaName", "physicalCity", "city", "addressCity", "town", "village",
                  "area", "district">>

extractNameArea(v) ==
  LET hasName == Has(v, "name") /\ trim(v.name) # ""
      words   == IF hasName THEN split(trim(v.name)) ELSE <<>>
      f0      == firstDefinedStr(v, FirstAliases)
      l0      == firstDefinedStr(v, LastAliases)
  IN [first |-> IF f0 # undefined THEN f0
                ELSE IF hasName THEN join(SubSeq(words, 1, Len(words) - 1)) ELSE undefined,
      last  |-> IF l0 # undefined THEN l0
                ELSE IF hasName THEN words[Len(words)] ELSE undefined,
      area  |-> firstDefinedStr(v, AreaAliases)]

\* x ?? ""
OrEmpty(x) == IF x = undefined THEN "" ELSE x

\* dashboard.tsx onlyDigits; a phone number is a sequence of characters
Digits == {"0", "1", "2", "3", "4", "5", "6", "7", "8", "9"}
IsDigit(c) == c \in Digits
onlyDigits(s) == SelectSeq(s, IsDigit)

startsWith(d, pre) == Len(d) >= Len(pre) /\ SubSeq(d, 1, Len(pre)) = pre

\* dashboard.tsx phoneKeys: the keys in the order in which the Set holds them
phoneKeys(s) ==
  LET d == onlyDigits(s)
  IN IF d = <<>> THEN <<>>
     ELSE <<d>>
          \o (IF startsWith(d, <<"2", "6", "5">>) THEN <<SubSeq(d, 4, Len(d))>> ELSE <<>>)
          \o (IF startsWith(d, <<"0">>) THEN <<SubSeq(d, 2, Len(d))>> ELSE <<>>)

\* dashboard.tsx nameKey: <<f, l>> stands for `${f}|${l}`, <<>> for ""
nameKey(first, last) ==
  LET f == toLowerCase(trim(first))
      l == toLowerCase(trim(last))
  IN IF f # "" /\ l # "" THEN <<f, l>> ELSE <<>>

\* dashboard.tsx normalizeStatus
normalizeStatus(s) ==
  LET k == toLowerCase(IF Falsy(s) THEN "pending" ELSE s)
  IN IF k \in {"finished", "complete", "completed"} THEN "closed" ELSE k

\* Number(x ?? y ?? 0) on numeric fields
Num2(v, f1, f2) == IF Has(v, f1) THEN v[f1] ELSE IF Has(v, f2) THEN v[f2] ELSE 0

\* Array.isArray(v.collateralItems) ? v.collateralItems : []  (its length)
collateralItemsOf(v) == IF Has(v, "collateralItems") THEN v.collateralItems ELSE 0

----------------------------------------------------------------------------
(* The queries on loan_applications *)

\* the elements of a set of document ids, ascending
RECURSIVE SetToSeq(_)
SetToSeq(S) ==
  IF S = {} THEN <<>>
  ELSE LET x == CHOOSE y \in S : \A z \in S : y <= z
       IN <<x>> \o SetToSeq(S \ {x})

\* query(collection, orderBy("timestamp", "desc"), limit(n)): only documents
\* that have the field, newest first
OrderedQuery(coll, n) ==
  LET ids == SetToSeq({i \in DOMAIN coll : Has(coll[i], "timestamp")})
  IN Slice(SortAsc(ids, LAMBDA i : 0 - coll[i].timestamp.ms), n)

\* query(collection, limit(n)): the fallback without ordering
PlainQuery(coll, n) == Slice(SetToSeq(DOMAIN coll), n)

MapDocs(ids, coll, Row(_, _)) == [k \in 1..Len(ids) |-> Row(ids[k], coll[ids[k]])]

----------------------------------------------------------------------------
(* Admin dashboard: snapshot mapping and derived slices *)

PeriodAliases == <<"loanPeriod", "period", "term", "tenorMonths", "tenorWeeks">>
StartAliases  == <<"timestamp", "startDate", "start_date", "createdAt", "created_at", "loanStartDate">>
EndAliases    == <<"endDate", "loanEndDate", "expectedEndDate", "maturityDate", "end_date">>

DashRow(id, v) ==
  LET status           == normalizeStatus(Str(v, "status"))
      paymentFrequency == IF Has(v, "paymentFrequency") THEN v.paymentFrequency
                          ELSE IF Has(v, "frequency") THEN v.frequency ELSE "monthly"
      loanPeriod       == firstDefined(v, PeriodAliases, 0)
      startRaw         == firstDefined(v, StartAliases, NullTs)
      explicitEnd      == firstDefined(v, EndAliases, NullTs)
      explicitEndMs    == toMillis(explicitEnd)
      computedEnd      == computeEndDate(startRaw, loanPeriod, paymentFrequency)
      na               == extractNameArea(v)
  IN [id               |-> id,
      firstName        |-> OrEmpty(na.first),
      surname          |-> OrEmpty(na.last),
      mobile           |-> Coalesce(v, <<"mobileTel", "mobile", "mobileTel1">>, <<>>),
      areaName         |-> OrEmpty(na.area),
      loanAmount       |-> Num2(v, "loanAmount", "loanAmount"),
      currentBalance   |-> Num2(v, "currentBalance", "loanAmount"),
      loanPeriod       |-> loanPeriod,
      paymentFrequency |-> paymentFrequency,
      status           |-> status,
      timestamp        |-> startRaw,
      endDate          |-> IF explicitEndMs # NullMs /\ explicitEndMs # 0
                           THEN explicitEndMs ELSE computedEnd,
      collateralItems  |-> collateralItemsOf(v)]

\* outstanding without the balance test
outstandingAnyBalance(loans) ==
  SortAsc(Filter(loans, LAMBDA r : r.status \in {"approved", "active"}),
          LAMBDA r : 0 - r.currentBalance)

outstanding(loans) ==
  SortAsc(Filter(loans, LAMBDA r : r.status \in {"approved", "active"} /\ r.currentBalance > 0),
          LAMBDA r : 0 - r.currentBalance)

\* the first 6 loans with a balance, in the order of the snapshot
outstandingTopUnsorted(loans) ==
  Slice(Filter(loans, LAMBDA r : r.status \in {"approved", "active"} /\ r.currentBalance > 0), 6)

outstandingTop(loans) == Slice(outstanding(loans), 6)

deadlinesUpcoming(loans, now, soon) ==
  Slice(SortAsc(Filter(loans, LAMBDA r :
                    /\ r.status \in {"approved", "active"}
                    /\ r.currentBalance > 0
                    /\ r.endDate # NullMs
                    /\ r.endDate >= now
                    /\ r.endDate <= soon),
                LAMBDA r : r.endDate), 8)

\* overdueWithCollateral without the collateral test
overdueAnyCollateral(loans, now) ==
  Slice(SortAsc(Filter(loans, LAMBDA r :
                    /\ r.status \in {"approved", "active"}
                    /\ r.currentBalance > 0
                    /\ r.endDate # NullMs
                    /\ r.endDate < now),
                LAMBDA r : r.endDate), 8)

overdueWithCollateral(loans, now) ==
  Slice(SortAsc(Filter(loans, LAMBDA r :
                    /\ r.status \in {"approved", "active"}
                    /\ r.currentBalance > 0
                    /\ r.endDate # NullMs
                    /\ r.endDate < now
                    /\ r.collateralItems > 0),
                LAMBDA r : r.endDate), 8)

finished(loans) ==
  Slice(Filter(loans, LAMBDA r :
            r.currentBalance <= 0 \/ r.status = "closed" \/ r.status = "finished"), 8)

recentApplicants(loans) == Slice(loans, 8)

\* totals whose overdueCount counts only loans with collateral
totalsOverdueWithCollateral(loans, now) ==
  [outstandingCount      |-> Len(outstanding(loans)),
   outstandingBalanceSum |-> SumSeq(outstanding(loans), LAMBDA r : r.currentBalance),
   collateralCount       |-> SumSeq(loans, LAMBDA r : r.collateralItems),
   finishedCount         |-> Len(finished(loans)),
   overdueCount          |-> Len(Filter(loans, LAMBDA r :
                                 /\ r.endDate # NullMs /\ r.endDate < now
                                 /\ r.currentBalance > 0 /\ r.collateralItems > 0))]

totals(loans, now) ==
  [outstandingCount      |-> Len(outstanding(loans)),
   outstandingBalanceSum |-> SumSeq(outstanding(loans), LAMBDA r : r.currentBalance),
   collateralCount       |-> SumSeq(loans, LAMBDA r : r.collateralItems),
   finishedCount         |-> Len(finished(loans)),
   overdueCount          |-> Len(Filter(loans, LAMBDA r :
                                 r.endDate # NullMs /\ r.endDate < now /\ r.currentBalance > 0))]

----------------------------------------------------------------------------
(* The derived slices as array expressions.  A JavaScript array has an      *)
(* identity: filter and slice return a new array, sort orders its receiver  *)
(* in place and returns it.  An array expression is [arr, own, src]: arr is *)
(* its contents, own tells whether it is the array the chain started from  *)
(* and src is what that first array holds by now.                          *)

StateArray(loans) == [arr |-> loans, own |-> TRUE, src |-> loans]

\* (the receiver a is bound by a set so that it is evaluated once)
JsFilter(a, Keep(_)) ==
  CHOOSE r \in {[arr |-> Filter(x.arr, Keep), own |-> FALSE, src |-> x.src] : x \in {a}} : TRUE
JsSlice(a, n) ==
  CHOOSE r \in {[arr |-> Slice(x.arr, n), own |-> FALSE, src |-> x.src] : x \in {a}} : TRUE
JsSort(a, Key(_)) ==
  CHOOSE r \in {[arr |-> SortAsc(x.arr, Key), own |-> x.own,
                 src |-> IF x.own THEN SortAsc(x.arr, Key) ELSE x.src] : x \in {a}} : TRUE

\* loans.sort(...).filter(...): the chain that orders the snapshot itself
outstandingChainInPlace(loans) ==
  JsFilter(JsSort(StateArray(loans), LAMBDA r : 0 - r.currentBalance),
           LAMBDA r : r.status \in {"approved", "active"} /\ r.currentBalance > 0)

\* loans.filter(...).sort(...)
outstandingChain(loans) ==
  JsSort(JsFilter(StateArray(loans),
                  LAMBDA r : r.status \in {"approved", "active"} /\ r.currentBalance > 0),
         LAMBDA r : 0 - r.currentBalance)

\* loans.filter(...).sort(...).slice(0, 8)
deadlinesChain(loans, now, soon) ==
  JsSlice(JsSort(JsFilter(StateArray(loans), LAMBDA r :
                     /\ r.status \in {"approved", "active"}
                     /\ r.currentBalance > 0
                     /\ r.endDate # NullMs
                     /\ r.endDate >= now
                     /\ r.endDate <= soon),
                 LAMBDA r : r.endDate), 8)

overdueChain(loans, now) ==
  JsSlice(JsSort(JsFilter(StateArray(loans), LAMBDA r :
                     /\ r.status \in {"approved", "active"}
                     /\ r.currentBalance > 0
                     /\ r.endDate # NullMs
                     /\ r.endDate < now
                     /\ r.collateralItems > 0),
                 LAMBDA r : r.endDate), 8)

\* loans.filter(...).slice(0, 8) and loans.slice(0, 8)
finishedChain(loans) ==
  JsSlice(JsFilter(StateArray(loans), LAMBDA r :
              r.currentBalance <= 0 \/ r.status = "closed" \/ r.status = "finished"), 8)

recentChain(loans) == JsSlice(StateArray(loans), 8)

\* the derived slices in the order in which they are evaluated: what each
\* view holds and what the array `loans` holds at the end
derivedSlices(loans, now, soon) ==
  LET outs == outstandingChain(loans)
      top  == JsSlice(outs, 6)
      dl   == deadlinesChain(outs.src, now, soon)
      ov   == overdueChain(dl.src, now)
      fin  == finishedChain(ov.src)
      rec  == recentChain(fin.src)
  IN [loans                 |-> rec.src,
      outstandingTop        |-> top.arr,
      deadlinesUpcoming     |-> dl.arr,
      overdueWithCollateral |-> ov.arr,
      finished              |-> fin.arr,
      recentApplicants      |-> rec.arr]

----------------------------------------------------------------------------
(* Admin dashboard: the kyc_data listener and the enrichment of the loans *)

\* a ?? b over instants
OrMs(a, b) == IF a # NullMs THEN a ELSE b

\* AdminDashboardPage: a row of the kyc_data listener
KycRow(id, v) ==
  [id           |-> id,
   firstName    |-> Coalesce(v, <<"firstName", "applicantFirstName", "givenName">>, ""),
   lastName     |-> Coalesce(v, <<"lastName", "applicantLastName", "surname">>, ""),
   mobile       |-> Coalesce(v, <<"mobileTel1", "mobile", "phone">>, <<>>),
   physicalCity |-> Coalesce(v, <<"physicalCity", "areaName", "city">>, ""),
   createdAt    |-> OrMs(toMillis(Coalesce(v, <<"createdAt">>, NullTs)),
                         OrMs(toMillis(Coalesce(v, <<"timestamp">>, NullTs)),
                              toMillis(Coalesce(v, <<"created_at">>, NullTs))))]

\* the rows the kyc_data listener stores: newest first
KycRows(coll) ==
  SortAsc(MapDocs(PlainQuery(coll, 500), coll, KycRow),
          LAMBDA r : 0 - OrMs(r.createdAt, 0))

\* kycIndex.byPhone.get(key): Map.set keeps the last row that has the key
byPhone(kyc, key) ==
  LET hits == {i \in 1..Len(kyc) : key \in Range(phoneKeys(kyc[i].mobile))}
  IN IF hits = {} THEN Null ELSE kyc[CHOOSE i \in hits : \A j \in hits : j <= i]

\* kycIndex.byName.get(nk): only rows with a non-empty name key are indexed
byName(kyc, nk) ==
  LET hits == {i \in 1..Len(kyc) :
                 /\ nameKey(kyc[i].firstName, kyc[i].lastName) # <<>>
                 /\ nameKey(kyc[i].firstName, kyc[i].lastName) = nk}
  IN IF hits = {} THEN Null ELSE kyc[CHOOSE i \in hits : \A j \in hits : j <= i]

\* kycIndex.byId.get(id)
byId(kyc, id) ==
  LET hits == {i \in 1..Len(kyc) : kyc[i].id = id}
  IN IF hits = {} THEN Null ELSE kyc[CHOOSE i \in hits : \A j \in hits : j <= i]

\* the three assignments made with = in place of ||=
BackfillOverwrite(out, k) ==
  [out EXCEPT !.firstName = k.firstName,
              !.surname   = k.lastName,
              !.areaName  = k.physicalCity]

\* out.firstName ||= k.firstName || "" and the two assignments that follow it
Backfill(out, k) ==
  [out EXCEPT !.firstName = IF @ = "" THEN k.firstName ELSE @,
              !.surname   = IF @ = "" THEN k.lastName ELSE @,
              !.areaName  = IF @ = "" THEN k.physicalCity ELSE @]

\* AdminDashboardPage.loans: one loan of loansRaw enriched from the KYC index
enrichLoan(l, kyc) ==
  LET missing == l.firstName = "" \/ l.surname = "" \/ l.areaName = ""
      keys    == phoneKeys(l.mobile)
      hits    == {i \in 1..Len(keys) : ~IsNull(byPhone(kyc, keys[i]))}
      out1    == IF missing /\ hits # {}
                 THEN Backfill(l, byPhone(kyc, keys[CHOOSE i \in hits : \A j \in hits : i <= j]))
                 ELSE l
      k2      == byName(kyc, nameKey(out1.firstName, out1.surname))
      out2    == IF missing /\ (out1.firstName = "" \/ out1.surname = "") /\ ~IsNull(k2)
                 THEN Backfill(out1, k2)
                 ELSE out1
  IN [out2 EXCEPT !.endDate = IF @ = NullMs \/ @ = 0
                              THEN computeEndDate(l.timestamp, l.loanPeriod, l.paymentFrequency)
                              ELSE @]

\* AdminDashboardPage.loans
enrich(loansRaw, kyc) == [i \in 1..Len(loansRaw) |-> enrichLoan(loansRaw[i], kyc)]

----------------------------------------------------------------------------
(* Overview API route: GET *)

ApiRow(id, v) ==
  LET status           == toLowerCase(IF Falsy(Str(v, "status")) THEN "pending" ELSE v.status)
      paymentFrequency == IF Has(v, "paymentFrequency") THEN v.paymentFrequency ELSE "monthly"
      loanPeriod       == IF Has(v, "loanPeriod") THEN v.loanPeriod ELSE 0
      ts               == IF Has(v, "timestamp") THEN v.timestamp ELSE NullTs
  IN [id               |-> id,
      firstName        |-> Coalesce(v, <<"firstName", "applicantFirstName">>, ""),
      surname          |-> Coalesce(v, <<"surname", "applicantLastName">>, ""),
      mobile           |-> Coalesce(v, <<"mobileTel", "mobile", "mobileTel1">>, <<>>),
      areaName         |-> Coalesce(v, <<"areaName">>, ""),
      loanAmount       |-> Num2(v, "loanAmount", "loanAmount"),
      currentBalance   |-> Num2(v, "currentBalance", "loanAmount"),
      loanPeriod       |-> loanPeriod,
      paymentFrequency |-> paymentFrequency,
      status           |-> status,
      timestamp        |-> ts,
      endDate          |-> computeEndDateApi(ts, loanPeriod, paymentFrequency),
      collateralItems  |-> collateralItemsOf(v)]

\* GET.kycPending: a row of the compact KYC list
ApiKycRow(id, v) ==
  [id        |-> id,
   firstName |-> Coalesce(v, <<"firstName">>, ""),
   lastName  |-> Coalesce(v, <<"lastName">>, ""),
   mobile    |-> Coalesce(v, <<"mobileTel1", "mobile">>, <<>>),
   createdAt |-> OrMs(toMillisApi(Coalesce(v, <<"createdAt">>, NullTs)),
                      toMillisApi(Coalesce(v, <<"timestamp">>, NullTs)))]

ApiRowThrows(v) ==
  computeEndDateApiThrows(IF Has(v, "timestamp") THEN v.timestamp ELSE NullTs,
                          IF Has(v, "loanPeriod") THEN v.loanPeriod ELSE 0)

ApiOutstanding(loans) ==
  SortAsc(Filter(loans, LAMBDA r : r.status \in {"approved", "active"} /\ r.currentBalance > 0),
          LAMBDA r : 0 - r.currentBalance)

ApiOutstandingTop(loans) == Slice(ApiOutstanding(loans), 6)

ApiDeadlinesUpcoming(loans, now, soon) ==
  Slice(SortAsc(Filter(loans, LAMBDA r :
                    /\ r.status \in {"approved", "active"}
                    /\ r.currentBalance > 0
                    /\ r.endDate # NullMs
                    /\ r.endDate >= now
                    /\ r.endDate <= soon),
                LAMBDA r : r.endDate), 8)

ApiOverdueWithCollateral(loans, now) ==
  Slice(SortAsc(Filter(loans, LAMBDA r :
                    /\ r.status \in {"approved", "active"}
                    /\ r.currentBalance > 0
                    /\ r.endDate # NullMs
                    /\ r.endDate < now
                    /\ r.collateralItems > 0),
                LAMBDA r : r.endDate), 8)

ApiFinished(loans) ==
  Slice(Filter(loans, LAMBDA r :
            r.currentBalance <= 0 \/ r.status = "closed" \/ r.status = "finished"), 8)

ApiTotals(loans, now) ==
  [outstandingCount      |-> Len(ApiOutstanding(loans)),
   outstandingBalanceSum |-> SumSeq(ApiOutstanding(loans), LAMBDA r : r.currentBalance),
   collateralCount       |-> SumSeq(loans, LAMBDA r : r.collateralItems),
   finishedCount         |-> Len(ApiFinished(loans)),
   overdueCount          |-> Len(Filter(loans, LAMBDA r :
                                 r.endDate # NullMs /\ r.endDate < now /\ r.currentBalance > 0))]

----------------------------------------------------------------------------
(* Outstanding-management page *)

OmRow(id, v) ==
  [id               |-> id,
   firstName        |-> FirstTruthy(v, <<"firstName">>, ""),
   surname          |-> FirstTruthy(v, <<"surname", "lastName">>, ""),
   mobile           |-> FirstTruthy(v, <<"mobile", "mobileTel">>, <<>>),
   areaName         |-> FirstTruthy(v, <<"areaName">>, ""),
   loanAmount       |-> Num2(v, "loanAmount", "loanAmount"),
   currentBalance   |-> Num2(v, "currentBalance", "loanAmount"),
   loanPeriod       |-> Num2(v, "loanPeriod", "period"),
   paymentFrequency |-> toLowerCase(IF Has(v, "paymentFrequency") THEN v.paymentFrequency
                                    ELSE IF Has(v, "frequency") THEN v.frequency ELSE "monthly"),
   status           |-> toLowerCase(IF Has(v, "status") THEN v.status ELSE "pending"),
   timestamp        |-> IF Has(v, "timestamp") THEN v.timestamp ELSE NullTs,
   endDate          |-> IF Has(v, "endDate") THEN v.endDate ELSE NullTs]

\* the end instant of OutstandingManagementPage.derived
OmEndMs(l) ==
  IF Truthy(l.endDate)
  THEN (IF toMillis(l.endDate) = NullMs THEN 0 ELSE toMillis(l.endDate))
  ELSE computeEndDate(l.timestamp, l.loanPeriod, l.paymentFrequency)

\* Math.ceil(a / b) for a > 0
CeilDiv(a, b) == (a + b - 1) \div b

\* LATE_FEE_DAILY = 0.001, in thousandths: money amounts derived from it are
\* counted in thousandths of a kwacha
LateFeeDailyPerMille == 1

\* derived with the days rounded down
derivedLoanFloor(l, now) ==
  LET endMs       == OmEndMs(l)
      overdueDays == IF endMs # NullMs /\ endMs # 0 /\ endMs < now
                     THEN (now - endMs) \div Day ELSE 0
  IN Merge(l, [startMs     |-> toMillis(l.timestamp),
               endMs       |-> endMs,
               overdueDays |-> overdueDays,
               lateAmt     |-> IF overdueDays > 0
                               THEN l.currentBalance * LateFeeDailyPerMille * overdueDays
                               ELSE 0])

\* OutstandingManagementPage.derived: one loan
derivedLoan(l, now) ==
  LET endMs       == OmEndMs(l)
      overdueDays == IF endMs # NullMs /\ endMs # 0 /\ endMs < now
                     THEN CeilDiv(now - endMs, Day) ELSE 0
  IN Merge(l, [startMs     |-> toMillis(l.timestamp),
               endMs       |-> endMs,
               overdueDays |-> overdueDays,
               lateAmt     |-> IF overdueDays > 0
                               THEN l.currentBalance * LateFeeDailyPerMille * overdueDays
                               ELSE 0])

\* OutstandingManagementPage.derived
OmDerived(rows, now) == [i \in 1..Len(rows) |-> derivedLoan(rows[i], now)]

\* AdminDashboardPage.collaterals (part_009): the entries of one loan, one
\* for each collateral item
collateralsOfLoan(loan, nowMs) ==
  LET endMs       == loan.endDate
      overdueDays == IF endMs # NullMs /\ endMs # 0 /\ endMs < nowMs
                     THEN CeilDiv(nowMs - endMs, Day) ELSE 0
  IN [i \in 1..loan.collateralItems |->
        [loanId         |-> loan.id,
         item           |-> i - 1,
         startMs        |-> toMillis(loan.timestamp),
         endMs          |-> endMs,
         overdueDays    |-> overdueDays,
         lateFee        |-> IF overdueDays > 0
                            THEN loan.currentBalance * LateFeeDailyPerMille * overdueDays
                            ELSE 0,
         currentBalance |-> loan.currentBalance]]

RECURSIVE collateralsList(_, _)
collateralsList(loans, nowMs) ==
  IF loans = <<>> THEN <<>>
  ELSE collateralsOfLoan(Head(loans), nowMs) \o collateralsList(Tail(loans), nowMs)

\* AdminDashboardPage.collaterals (part_009): newest loan first
collaterals(loans, nowMs) ==
  SortAsc(collateralsList(loans, nowMs), LAMBDA c : 0 - OrMs(c.startMs, 0))

OmOutstanding(loans) ==
  Filter(loans, LAMBDA r : r.status \in {"approved", "active", "overdue"} /\ r.currentBalance > 0)

OmFinished(loans) ==
  Filter(loans, LAMBDA r : r.currentBalance <= 0 \/ r.status = "closed")

----------------------------------------------------------------------------
(* Page actions: every classification run *)

MaxClock == T0 + MaxTicks

\* the clock may advance by d between two reads made by one handler
Skews == {d \in 0..MaxTicks : clock + d <= MaxClock}

\* AdminDashboardPage: first render, before any snapshot has arrived
DashboardMount ==
  /\ page.site = "none"
  /\ \E d \in Skews :
       /\ page' = [site |-> "dashboard", loansRaw |-> <<>>, loans |-> <<>>,
                   updatedAt |-> NullMs, now |-> clock, soon |-> clock + d + 14 * Day]
       /\ clock' = clock + d
  /\ UNCHANGED loan_applications
  /\ UNCHANGED flowVars
  /\ UNCHANGED issueVars
  /\ UNCHANGED browserVars

\* AdminDashboardPage: the loans onSnapshot callback (ordered = TRUE) or its
\* error fallback (ordered = FALSE), followed by the render it causes
DashboardOnSnapshot ==
  /\ page.site = "dashboard"
  /\ \E ordered \in BOOLEAN :
       LET ids  == IF ordered THEN OrderedQuery(loan_applications, 200)
                   ELSE PlainQuery(loan_applications, 200)
           rows == MapDocs(ids, loan_applications, DashRow)
           out  == enrich(rows, kycPending)
       IN \E d \in Skews :
            /\ page' = IF page.updatedAt = clock
                       THEN [page EXCEPT !.loansRaw = rows, !.loans = out]
                       ELSE [site |-> "dashboard", loansRaw |-> rows,
                             loans |-> out, updatedAt |-> clock,
                             now |-> clock + d, soon |-> clock + 14 * Day]
            /\ clock' = IF page.updatedAt = clock THEN clock ELSE clock + d
  /\ UNCHANGED loan_applications
  /\ UNCHANGED flowVars
  /\ UNCHANGED issueVars
  /\ UNCHANGED browserVars

\* AdminDashboardPage: the Refresh button, setUpdatedAt(Date.now())
DashboardRefresh ==
  /\ page.site = "dashboard"
  /\ page.updatedAt # clock
  /\ \E d \in Skews :
       /\ page' = [page EXCEPT !.updatedAt = clock, !.now = clock + d,
                               !.soon = clock + 14 * Day]
       /\ clock' = clock + d
  /\ UNCHANGED loan_applications
  /\ UNCHANGED flowVars
  /\ UNCHANGED issueVars
  /\ UNCHANGED browserVars

\* GET /api/admin/overview-data
ApiGET ==
  /\ page.site \in {"none", "api"}
  /\ \E ordered \in BOOLEAN :
       LET ids  == IF ordered THEN OrderedQuery(loan_applications, 200)
                   ELSE PlainQuery(loan_applications, 200)
           rows == MapDocs(ids, loan_applications, ApiRow)
       IN IF \E k \in 1..Len(ids) : ApiRowThrows(loan_applications[ids[k]])
          THEN /\ page' = [site |-> "api", error |-> TRUE]
               /\ clock' = clock
          ELSE \E d \in Skews :
                 /\ page' = [site |-> "api", error |-> FALSE, loans |-> rows,
                             kycPending |-> MapDocs(PlainQuery(kyc_data, 10), kyc_data,
                                                    ApiKycRow),
                             now |-> clock, soon |-> clock + d + 14 * Day]
                 /\ clock' = clock + d
  /\ UNCHANGED loan_applications
  /\ UNCHANGED flowVars
  /\ UNCHANGED issueVars
  /\ UNCHANGED browserVars

\* OutstandingManagementPage: the loans onSnapshot callback and its render
OmOnSnapshot ==
  /\ page.site \in {"none", "outstanding"}
  /\ page' = [site |-> "outstanding",
              loans |-> OmDerived(MapDocs(OrderedQuery(loan_applications, 500),
                                          loan_applications, OmRow), clock),
              now |-> clock]
  /\ UNCHANGED <<loan_applications, clock>>
  /\ UNCHANGED flowVars
  /\ UNCHANGED issueVars
  /\ UNCHANGED browserVars

\* AdminDashboardPage: the kyc_data onSnapshot callback and the render in
\* which the loans (and, in part_009, the collaterals) are derived again
KycOnSnapshot ==
  /\ page.site \in {"dashboard", "admin"}
  /\ kycPending' = KycRows(kyc_data)
  /\ page' = IF page.site = "admin"
              THEN [page EXCEPT !.loans = enrich(page.loansRaw, kycPending'),
                                !.nowMs = clock,
                                !.collaterals = collaterals(enrich(page.loansRaw, kycPending'),
                                                            clock)]
              ELSE [page EXCEPT !.loans = enrich(page.loansRaw, kycPending')]
  /\ UNCHANGED <<loan_applications, clock, kyc_data, calculations, loan_issuing, issuing,
                 feedback>>
  /\ UNCHANGED browserVars
  /\ UNCHANGED flowVars

\* AdminDashboardPage of part_009: first render, before any snapshot; nowMs
\* is the Date.now() read when the collaterals were last derived
AdminMount ==
  /\ page.site = "none"
  /\ \E d \in Skews :
       /\ page' = [site |-> "admin", loansRaw |-> <<>>, loans |-> <<>>,
                   updatedAt |-> NullMs, now |-> clock, soon |-> clock + d + 14 * Day,
                   nowMs |-> clock + d, collaterals |-> <<>>]
       /\ clock' = clock + d
  /\ UNCHANGED loan_applications
  /\ UNCHANGED flowVars
  /\ UNCHANGED issueVars
  /\ UNCHANGED browserVars

\* AdminDashboardPage of part_009: the loans onSnapshot callback (or its
\* fallback) and the render it causes
AdminOnSnapshot ==
  /\ page.site = "admin"
  /\ \E ordered \in BOOLEAN :
       LET ids  == IF ordered THEN OrderedQuery(loan_applications, 200)
                   ELSE PlainQuery(loan_applications, 200)
           rows == MapDocs(ids, loan_applications, DashRow)
           out  == enrich(rows, kycPending)
       IN \E d \in Skews :
            /\ page' = [site |-> "admin", loansRaw |-> rows, loans |-> out,
                        updatedAt |-> clock, now |-> clock, soon |-> clock + 14 * Day,
                        nowMs |-> clock + d, collaterals |-> collaterals(out, clock + d)]
            /\ clock' = clock + d
  /\ UNCHANGED loan_applications
  /\ UNCHANGED flowVars
  /\ UNCHANGED issueVars
  /\ UNCHANGED browserVars


----------------------------------------------------------------------------
(* Loan documents of the snapshots that are classified *)


\* a weekly two-period loan that matures at instant e
LoanEndingAt(e) ==
  [timestamp |-> TsOf("ts", e - 14 * Day), loanPeriod |-> 2, paymentFrequency |-> "weekly"]

StatusShapes == {[status |-> "approved"], [status |-> "Active"], [status |-> "overdue"],
                 [status |-> "closed"], NoFields}
BalanceShapes == {[loanAmount |-> 150], [loanAmount |-> 150, currentBalance |-> 0],
                  [loanAmount |-> 150, currentBalance |-> 50]}
EndShapes ==
  {LoanEndingAt(e) : e \in {T0 - 20 * Day, T0, T0 + 14 * Day, T0 + 14 * Day + 1}}
  \cup {[timestamp |-> TsOf("ts", T0 - Day)],
        [timestamp |-> TsOf("ts", T0 - 200 * Day), loanPeriod |-> 6],
        [timestamp |-> TsOf("ts", T0 - 100 * Day), loanPeriod |-> 2,
         paymentFrequency |-> "weekly", endDate |-> TsOf("str", T0 + 3 * Day)]}
CollateralShapes == {NoFields, [collateralItems |-> 2]}

FreeKinds ==
  {Merge(Merge(Merge(st, bal), e), c) :
     st \in StatusShapes, bal \in BalanceShapes, e \in EndShapes, c \in CollateralShapes}

FillKinds ==
  {Merge([status |-> "approved", loanAmount |-> 100, currentBalance |-> 100,
          collateralItems |-> 1], LoanEndingAt(T0 + Day)),
   Merge([status |-> "active", loanAmount |-> 100, currentBalance |-> 80,
          collateralItems |-> 1], LoanEndingAt(T0 - 2 * Day)),
   Merge([status |-> "closed", loanAmount |-> 100, currentBalance |-> 0],
         LoanEndingAt(T0 - 30 * Day))}

\* one free loan (id 1) among n loans of one repeated kind
StoreOf(f, k, n) == [i \in 1..(n + 1) |-> IF i = 1 THEN f ELSE k]

\* none, or enough repeated loans to reach the display caps (6 and 8)
FillCounts == {0} \cup ((MaxFill - 1)..MaxFill)

----------------------------------------------------------------------------
(* The write workflows: preview modal Accept / Decline, Consider, payment  *)
(* recording and mark-as-finished.  A handler runs up to its next await in *)
(* one step; the write it awaits is done in the step that issues it, and   *)
(* ok = FALSE is the rejection of that write.                              *)

NoLoan == -1

\* auth.currentUser === null
NoAccount == "none"

\* id 0 is a record that was processed before copies of the original were kept
LoanIds == 0..MaxLoans

Remove(coll, x) == [i \in DOMAIN coll \ {x} |-> coll[i]]
Put(coll, x, doc) == [i \in DOMAIN coll \cup {x} |-> IF i = x THEN doc ELSE coll[i]]

\* a number, or null, read where a timestamp-like value is expected
MsLike(ms) == IF ms = NullMs THEN NullTs ELSE TsOf("num", ms)

\* LoanPreviewModal load effect: lr = { id: loanSnap.id, ...loanSnap.data() }
LoanRawOf(x, doc) == Merge([id |-> x], doc)

\* LoanPreviewModal load effect: the status of the preview
modalStatus(lr) ==
  LET rawStatus == Str(lr, "status")
      s         == toLowerCase(rawStatus)
  IN IF s \in {"finished", "complete", "completed"} THEN "closed"
     ELSE IF Falsy(s) THEN "pending" ELSE s

\* LoanPreviewModal load effect: the view built from the fetched loan
ModalView(lr) ==
  LET startRaw    == firstDefined(lr, <<"timestamp", "startDate", "start_date", "createdAt",
                                        "created_at">>, NullTs)
      explicitEnd == firstDefined(lr, EndAliases, NullTs)
      explicitMs  == toMillis(explicitEnd)
      period      == firstDefined(lr, PeriodAliases, 0)
      freq        == toLowerCase(IF Has(lr, "paymentFrequency") THEN lr.paymentFrequency
                                 ELSE IF Has(lr, "frequency") THEN lr.frequency
                                 ELSE "monthly")
      endMs       == IF explicitMs # NullMs /\ explicitMs # 0 THEN explicitMs
                     ELSE computeEndDate(startRaw, period, freq)
  IN [id             |-> lr.id,
      status         |-> modalStatus(lr),
      loanAmount     |-> Num2(lr, "loanAmount", "loanAmount"),
      currentBalance |-> Num2(lr, "currentBalance", "loanAmount"),
      period         |-> Num2(lr, "loanPeriod", "period"),
      frequency      |-> freq,
      startMs        |-> toMillis(startRaw),
      endMs          |-> IF endMs = 0 THEN NullMs ELSE endMs]

\* String(x)
StringOf(x) == IF x = undefined THEN "undefined" ELSE x

\* LoanPreviewModal load effect of part_009: the status of the preview (the
\* loans of the model carry no kycId, so that merged.kyc is {})
previewStatus(lr) ==
  LET rawStatus == firstDefinedStr(lr, <<"status", "loanStatus", "applicationStatus", "state">>)
      s         == toLowerCase(rawStatus)
  IN IF s \in {"finished", "complete", "completed"} THEN "closed"
     ELSE IF StringOf(s) = "" THEN "pending" ELSE StringOf(s)

\* LoanPreviewModal load effect of part_009: the view built from the loan
PreviewView(lr) == [ModalView(lr) EXCEPT !.status = previewStatus(lr)]

\* LoanPreviewModal.moveToProcessed: the document written to processed_loans
processedDoc(loanId, next, data, loanRaw) ==
  [id              |-> loanId,
   processedStatus |-> next,
   processedAt     |-> clock,
   loanAmount      |-> data.loanAmount,
   currentBalance  |-> data.currentBalance,
   period          |-> data.period,
   frequency       |-> data.frequency,
   startMs         |-> data.startMs,
   endMs           |-> data.endMs,
   original        |-> IF IsNull(loanRaw) THEN NoFields ELSE loanRaw,
   cleared         |-> FALSE]

\* AdminDashboardPage: a row of the processed_loans listener
ProcessedRow(id, v) ==
  [id              |-> id,
   processedStatus |-> v.processedStatus,
   loanAmount      |-> IF Has(v, "loanAmount") THEN v.loanAmount ELSE 0,
   currentBalance  |-> IF Has(v, "currentBalance") THEN v.currentBalance ELSE 0,
   period          |-> IF Has(v, "period") THEN v.period ELSE 0,
   frequency       |-> IF Has(v, "frequency") THEN v.frequency ELSE "monthly",
   startMs         |-> IF Has(v, "startMs") THEN toMillis(MsLike(v.startMs)) ELSE NullMs,
   endMs           |-> IF Has(v, "endMs") THEN toMillis(MsLike(v.endMs)) ELSE NullMs,
   original        |-> IF Has(v, "original") THEN v.original ELSE Null]

\* considerBackToActive: a copy of the original that can be written back
HasOriginal(p) == ~IsNull(p.original) /\ DOMAIN p.original # {}

\* considerBackToActive: the document written back to loan_applications
ConsiderPayload(p) ==
  IF HasOriginal(p) THEN p.original
  ELSE [loanAmount       |-> p.loanAmount,
        currentBalance   |-> p.currentBalance,
        loanPeriod       |-> p.period,
        paymentFrequency |-> toLowerCase(p.frequency),
        timestamp        |-> IF p.startMs # NullMs /\ p.startMs # 0
                             THEN TsOf("date", p.startMs) ELSE TsOf("date", clock),
        endDate          |-> IF p.endMs # NullMs /\ p.endMs # 0
                             THEN TsOf("date", p.endMs) ELSE NullTs,
        status           |-> IF p.processedStatus = "approved" THEN "approved" ELSE "pending",
        loanType         |-> "unknown"]

\* Number(text) of the amount typed into the payment form
AmountInputs == {"abc", "0", "-5", "30", "100"}
NumberOf(text) ==
  CASE text = "abc" -> [k |-> "nan", n |-> 0]
    [] text = "0"   -> [k |-> "num", n |-> 0]
    [] text = "-5"  -> [k |-> "num", n |-> 0 - 5]
    [] text = "30"  -> [k |-> "num", n |-> 30]
    [] text = "100" -> [k |-> "num", n |-> 100]
isFinite(v) == v.k = "num"

\* LoanCard.addPayment: the fields written to the loan document
PaymentUpdate(loan, amount) ==
  LET nextBalance == Max(0, loan.currentBalance - amount)
  IN [currentBalance |-> nextBalance,
      status         |-> IF nextBalance <= 0 THEN "closed" ELSE loan.status]

\* closeLoan writing the status only
CloseUpdateStatusOnly == [status |-> "closed"]

\* LoanCard.closeLoan: the fields written to the loan document
CloseUpdate == [status |-> "closed", currentBalance |-> 0]

\* the card of loan x on the outstanding-management page
CardOf(x) == CHOOSE l \in Range(page.loans) : l.id = x
HasCard(x) == page.site = "outstanding" /\ \E l \in Range(page.loans) : l.id = x

BusyKey(next) == IF next = "approved" THEN "accept" ELSE "decline"

\* the loans the workflow starts from
FlowLoan(i) ==
  Merge(IF i % 2 = 1
        THEN [status |-> "approved", loanAmount |-> 100, currentBalance |-> 80,
              collateralItems |-> 1]
        ELSE [status |-> "Active", loanAmount |-> 100],
        LoanEndingAt(T0 + i * Day))

LegacyProcessed(st) ==
  [id |-> 0, processedStatus |-> st, processedAt |-> T0 - Day, loanAmount |-> 60,
   currentBalance |-> 40, period |-> 2, frequency |-> "Weekly", startMs |-> T0 - 7 * Day,
   endMs |-> NullMs, cleared |-> FALSE]

ClosedModal ==
  [loanId |-> NoLoan, data |-> Null, loanRaw |-> Null, busy |-> "none", fetching |-> {}]
IdleCard == [busy |-> "none", err |-> FALSE]

FlowIdle ==
  /\ loan_payments = <<>>
  /\ modal = ClosedModal
  /\ cards = [x \in LoanIds |-> IdleCard]
  /\ ops = {}
  /\ alerts = "none"
  /\ started = 0
  /\ decided = [x \in LoanIds |-> Null]

\* no KYC record, no calculator proposal, nothing loaded
IssueIdle ==
  /\ kyc_data = NoFields
  /\ kycPending = <<>>
  /\ calculations = NoFields
  /\ loan_issuing = NoFields
  /\ issuing = <<>>
  /\ feedback = "none"

\* nobody signed in, nothing stored by the browser
BrowserIdle ==
  /\ auth = NoAccount
  /\ localStorage = NoFields

Init ==
  /\ loan_applications = [i \in 1..MaxLoans |-> FlowLoan(i)]
  /\ processed_loans \in {[i \in {0} |-> LegacyProcessed(st)] : st \in {"approved", "declined"}}
  /\ clock = T0
  /\ page = [site |-> "outstanding",
             loans |-> OmDerived(MapDocs(OrderedQuery(loan_applications, 500),
                                         loan_applications, OmRow), clock),
             now |-> clock]
  /\ FlowIdle
  /\ BrowserIdle
  /\ IssueIdle

CanStart == started < MaxOps
CanClick == started < MaxClicks
NewOp(kind, x, pc, arg) == [kind |-> kind, id |-> x, pc |-> pc, n |-> started, arg |-> arg]

\* AdminDashboardPage: setViewLoanId(x) from a list row, and the modal's load
\* effect up to its getDoc
ModalOpen(x) ==
  /\ CanClick
  /\ modal.loanId = NoLoan
  /\ x \in DOMAIN loan_applications
  /\ modal' = [modal EXCEPT !.loanId = x, !.data = Null, !.fetching = @ \cup {x}]
  /\ started' = started + 1
  /\ UNCHANGED issueVars
  /\ UNCHANGED browserVars
  /\ UNCHANGED <<loan_applications, clock, page, processed_loans, loan_payments, cards, ops,
                 alerts, decided>>

\* LoanPreviewModal load effect: the rest of the effect once getDoc answers
ModalLoaded(x) ==
  /\ x \in modal.fetching
  /\ modal' = IF x \in DOMAIN loan_applications
              THEN [modal EXCEPT !.fetching = @ \ {x},
                                 !.loanRaw = LoanRawOf(x, loan_applications[x]),
                                 !.data = ModalView(LoanRawOf(x, loan_applications[x]))]
              ELSE [modal EXCEPT !.fetching = @ \ {x}]
  /\ UNCHANGED issueVars
  /\ UNCHANGED browserVars
  /\ UNCHANGED <<loan_applications, clock, page, processed_loans, loan_payments, cards, ops,
                 alerts, started, decided>>

\* LoanPreviewModal load effect of part_009: the rest of the effect once
\* getDoc answers
PreviewLoaded(x) ==
  /\ page.site = "admin"
  /\ x \in modal.fetching
  /\ modal' = IF x \in DOMAIN loan_applications
              THEN [modal EXCEPT !.fetching = @ \ {x},
                                 !.loanRaw = LoanRawOf(x, loan_applications[x]),
                                 !.data = PreviewView(LoanRawOf(x, loan_applications[x]))]
              ELSE [modal EXCEPT !.fetching = @ \ {x}]
  /\ UNCHANGED issueVars
  /\ UNCHANGED browserVars
  /\ UNCHANGED <<loan_applications, clock, page, processed_loans, loan_payments, cards, ops,
                 alerts, started, decided>>

\* LoanPreviewModal: onClose from the backdrop, the close button or Escape
ModalClose ==
  /\ CanClick
  /\ modal.loanId # NoLoan
  /\ modal' = [modal EXCEPT !.loanId = NoLoan]
  /\ started' = started + 1
  /\ UNCHANGED issueVars
  /\ UNCHANGED browserVars
  /\ UNCHANGED <<loan_applications, clock, page, processed_loans, loan_payments, cards, ops,
                 alerts, decided>>

\* LoanPreviewModal.moveToProcessed up to the setDoc: the best-effort status
\* update, which is rejected (and the rejection swallowed) when the document
\* does not exist
MoveToProcessed(next) ==
  /\ CanClick
  /\ modal.loanId # NoLoan
  /\ ~IsNull(modal.data)
  /\ modal.busy # BusyKey(next)
  /\ LET x == modal.loanId
     IN /\ loan_applications' =
             IF x \in DOMAIN loan_applications
             THEN Put(loan_applications, x, Merge(loan_applications[x], [status |-> next]))
             ELSE loan_applications
        /\ ops' = ops \cup {NewOp("move", x, 2,
                                  [next |-> next, data |-> modal.data, loanRaw |-> modal.loanRaw])}
        /\ decided' = [decided EXCEPT ![x] = IF x \in DOMAIN loan_applications
                                             THEN loan_applications[x] ELSE Null]
  /\ modal' = [modal EXCEPT !.busy = BusyKey(next)]
  /\ started' = started + 1
  /\ UNCHANGED issueVars
  /\ UNCHANGED browserVars
  /\ UNCHANGED <<clock, page, processed_loans, loan_payments, cards, alerts>>

\* moveToProcessed: setDoc(processed_loans/loanId)
MoveSetDoc(o, ok) ==
  /\ o \in ops /\ o.kind = "move" /\ o.pc = 2
  /\ IF ok
     THEN /\ processed_loans' =
               Put(processed_loans, o.id,
                   processedDoc(o.id, o.arg.next, o.arg.data, o.arg.loanRaw))
          /\ ops' = (ops \ {o}) \cup {[o EXCEPT !.pc = 3]}
          /\ UNCHANGED <<modal, alerts>>
     ELSE /\ alerts' = "Failed to move to processed"
          /\ modal' = [modal EXCEPT !.busy = "none"]
          /\ ops' = ops \ {o}
          /\ UNCHANGED processed_loans
  /\ UNCHANGED issueVars
  /\ UNCHANGED browserVars
  /\ UNCHANGED <<loan_applications, clock, page, loan_payments, cards, started, decided>>

\* moveToProcessed: deleteDoc(loan_applications/loanId), onClose, setBusy(null)
MoveDelete(o, ok) ==
  /\ o \in ops /\ o.kind = "move" /\ o.pc = 3
  /\ IF ok
     THEN /\ loan_applications' = Remove(loan_applications, o.id)
          /\ modal' = [modal EXCEPT !.loanId = NoLoan, !.busy = "none"]
          /\ UNCHANGED alerts
     ELSE /\ alerts' = "Failed to move to processed"
          /\ modal' = [modal EXCEPT !.busy = "none"]
          /\ UNCHANGED loan_applications
  /\ ops' = ops \ {o}
  /\ UNCHANGED issueVars
  /\ UNCHANGED browserVars
  /\ UNCHANGED <<clock, page, processed_loans, loan_payments, cards, started, decided>>

\* considerBackToActive(p) up to the deleteDoc: the setDoc of the payload
Consider(x) ==
  /\ CanClick
  /\ x \in DOMAIN processed_loans
  /\ LET p == ProcessedRow(x, processed_loans[x])
     IN /\ loan_applications' = Put(loan_applications, x, ConsiderPayload(p))
        /\ ops' = ops \cup {NewOp("consider", x, 2, [p |-> p])}
  /\ started' = started + 1
  /\ UNCHANGED issueVars
  /\ UNCHANGED browserVars
  /\ UNCHANGED <<clock, page, processed_loans, loan_payments, modal, cards, alerts, decided>>

\* considerBackToActive: deleteDoc(processed_loans/p.id)
ConsiderDelete(o, ok) ==
  /\ o \in ops /\ o.kind = "consider" /\ o.pc = 2
  /\ IF ok
     THEN /\ processed_loans' = Remove(processed_loans, o.id)
          /\ UNCHANGED alerts
     ELSE /\ alerts' = "Failed to restore"
          /\ UNCHANGED processed_loans
  /\ ops' = ops \ {o}
  /\ UNCHANGED issueVars
  /\ UNCHANGED browserVars
  /\ UNCHANGED <<loan_applications, clock, page, loan_payments, modal, cards, started, decided>>

\* RecordPaymentButton.handleSave with a rejected amount
HandleSaveInvalid(x, text) ==
  /\ HasCard(x)
  /\ cards[x].busy # "pay"
  /\ ~isFinite(NumberOf(text)) \/ NumberOf(text).n <= 0
  /\ alerts' = "Enter a valid amount > 0"
  /\ UNCHANGED issueVars
  /\ UNCHANGED browserVars
  /\ UNCHANGED <<loan_applications, clock, page, processed_loans, loan_payments, modal, cards,
                 ops, started, decided>>

\* RecordPaymentButton.handleSave and LoanCard.addPayment up to the updateDoc:
\* the addDoc of the payment
HandleSave(x, text, ok) ==
  /\ CanStart
  /\ HasCard(x)
  /\ cards[x].busy # "pay"
  /\ isFinite(NumberOf(text)) /\ NumberOf(text).n > 0
  /\ LET amount == NumberOf(text).n
     IN /\ amount # 0 /\ amount > 0
        /\ IF ok
           THEN /\ loan_payments' = Append(loan_payments, [loan |-> x, amount |-> amount])
                /\ ops' = ops \cup {NewOp("pay", x, 2, [amount |-> amount, loan |-> CardOf(x)])}
                /\ cards' = [cards EXCEPT ![x] = [busy |-> "pay", err |-> FALSE]]
           ELSE /\ cards' = [cards EXCEPT ![x] = [busy |-> "none", err |-> TRUE]]
                /\ UNCHANGED <<loan_payments, ops>>
  /\ started' = started + 1
  /\ UNCHANGED issueVars
  /\ UNCHANGED browserVars
  /\ UNCHANGED <<loan_applications, clock, page, processed_loans, modal, alerts, decided>>

\* addPayment: updateDoc(loan_applications/loan.id), which is rejected when
\* the document does not exist, then loadPayments and setBusy(null)
PayUpdate(o, ok) ==
  /\ o \in ops /\ o.kind = "pay" /\ o.pc = 2
  /\ IF ok /\ o.id \in DOMAIN loan_applications
     THEN /\ loan_applications' =
               Put(loan_applications, o.id,
                   Merge(loan_applications[o.id], PaymentUpdate(o.arg.loan, o.arg.amount)))
          /\ cards' = [cards EXCEPT ![o.id].busy = "none"]
     ELSE /\ cards' = [cards EXCEPT ![o.id] = [busy |-> "none", err |-> TRUE]]
          /\ UNCHANGED loan_applications
  /\ ops' = ops \ {o}
  /\ UNCHANGED issueVars
  /\ UNCHANGED browserVars
  /\ UNCHANGED <<clock, page, processed_loans, loan_payments, modal, alerts, started, decided>>

\* LoanCard.closeLoan
CloseLoan(x, ok) ==
  /\ CanStart
  /\ HasCard(x)
  /\ cards[x].busy # "close"
  /\ IF ok /\ x \in DOMAIN loan_applications
     THEN /\ loan_applications' =
               Put(loan_applications, x, Merge(loan_applications[x], CloseUpdate))
          /\ cards' = [cards EXCEPT ![x] = IdleCard]
     ELSE /\ cards' = [cards EXCEPT ![x] = [busy |-> "none", err |-> TRUE]]
          /\ UNCHANGED loan_applications
  /\ started' = started + 1
  /\ UNCHANGED issueVars
  /\ UNCHANGED browserVars
  /\ UNCHANGED <<clock, page, processed_loans, loan_payments, modal, ops, alerts, decided>>

\* the dashboard tab: preview modal, Accept / Decline, Consider
NextDecide ==
  \/ \E x \in LoanIds : ModalOpen(x)
  \/ \E x \in LoanIds : ModalLoaded(x)
  \/ ModalClose
  \/ \E next \in {"approved", "declined"} : MoveToProcessed(next)
  \/ \E o \in ops, ok \in BOOLEAN : MoveSetDoc(o, ok)
  \/ \E o \in ops, ok \in BOOLEAN : MoveDelete(o, ok)
  \/ \E x \in LoanIds : Consider(x)
  \/ \E o \in ops, ok \in BOOLEAN : ConsiderDelete(o, ok)

SpecDecide == Init /\ [][NextDecide]_vars

\* the outstanding-management tab: loan cards and their snapshot listener
NextPay ==
  \/ \E x \in LoanIds, text \in AmountInputs : HandleSaveInvalid(x, text)
  \/ \E x \in LoanIds, text \in AmountInputs, ok \in BOOLEAN : HandleSave(x, text, ok)
  \/ \E o \in ops, ok \in BOOLEAN : PayUpdate(o, ok)
  \/ \E x \in LoanIds, ok \in BOOLEAN : CloseLoan(x, ok)
  \/ OmOnSnapshot

SpecPay == Init /\ [][NextPay]_vars

----------------------------------------------------------------------------
(* Calculator proposals (part_009): the calculations listener and         *)
(* decideProposal.  A proposal's path is identified with its id.          *)

MaxDecisions == 1    \* Approve / Deny clicks in one behaviour

NoUser == -1

\* Number(v.f || 0)
NumOr0(v, f) == IF Has(v, f) THEN v[f] ELSE 0

\* AdminDashboardPage: a row of the calculations listener
CalcRow(id, v) ==
  [id         |-> id,
   userId     |-> IF Has(v, "userId") THEN v.userId ELSE NoUser,
   loanType   |-> IF Has(v, "loanType") /\ v.loanType # "" THEN v.loanType ELSE "unknown",
   loanAmount |-> NumOr0(v, "loanAmount"),
   months     |-> NumOr0(v, "months"),
   timestamp  |-> firstDefined(v, <<"timestamp", "createdAt", "created_at">>, NullTs),
   decision   |-> IF Has(v, "decision") THEN v.decision ELSE Null]

\* the rows the calculations listener stores: newest first
CalcRows(coll) ==
  SortAsc(MapDocs(PlainQuery(coll, 200), coll, CalcRow),
          LAMBDA r : 0 - OrMs(toMillis(r.timestamp), 0))

\* decideProposal: the fields updateDoc writes to the proposal
DecisionUpdate(status) == [decision |-> [status |-> status, at |-> clock]]

\* decideProposal: the record merged into loan_issuing
IssuingRecord(p, status) ==
  [calcId |-> p.id, userId |-> p.userId, loanType |-> p.loanType,
   loanAmount |-> p.loanAmount, months |-> p.months, status |-> status,
   decidedAt |-> clock]

\* decideProposal: the loan payload whose status is left pending
newLoanPayloadPending(p, kyc) ==
  LET k == byId(kyc, p.userId)
  IN [firstName        |-> IF IsNull(k) THEN "" ELSE k.firstName,
      surname          |-> IF IsNull(k) THEN "" ELSE k.lastName,
      mobile           |-> IF IsNull(k) THEN <<>> ELSE k.mobile,
      areaName         |-> IF IsNull(k) THEN "" ELSE k.physicalCity,
      loanAmount       |-> p.loanAmount,
      currentBalance   |-> p.loanAmount,
      loanPeriod       |-> p.months,
      paymentFrequency |-> "monthly",
      loanType         |-> p.loanType,
      status           |-> "pending",
      timestamp        |-> TsOf("ts", clock),
      kycId            |-> p.userId,
      calcRefId        |-> p.id]

\* decideProposal: newLoanPayload
newLoanPayload(p, kyc) ==
  LET k == byId(kyc, p.userId)
  IN [firstName        |-> IF IsNull(k) THEN "" ELSE k.firstName,
      surname          |-> IF IsNull(k) THEN "" ELSE k.lastName,
      mobile           |-> IF IsNull(k) THEN <<>> ELSE k.mobile,
      areaName         |-> IF IsNull(k) THEN "" ELSE k.physicalCity,
      loanAmount       |-> p.loanAmount,
      currentBalance   |-> p.loanAmount,
      loanPeriod       |-> p.months,
      paymentFrequency |-> "monthly",
      loanType         |-> p.loanType,
      status           |-> "approved",
      timestamp        |-> TsOf("ts", clock),
      kycId            |-> p.userId,
      calcRefId        |-> p.id]

CanDecide == started < MaxDecisions

\* AdminDashboardPage: the calculations onSnapshot callback (or its fallback)
IssuingOnSnapshot ==
  /\ page.site = "admin"
  /\ issuing' = CalcRows(calculations)
  /\ UNCHANGED <<kyc_data, kycPending, calculations, loan_issuing, feedback>>
  /\ UNCHANGED browserVars
  /\ UNCHANGED viewVars
  /\ UNCHANGED flowVars

\* decideProposal(p, status) from the Approve / Deny button of a row, up to
\* the end of its updateDoc on the proposal; the handler keeps the kycIndex
\* of the render in which the button was clicked
DecideProposal(p, status, ok) ==
  /\ CanDecide
  /\ page.site = "admin"
  /\ p \in Range(issuing)
  /\ started' = started + 1
  /\ IF ok /\ p.id \in DOMAIN calculations
     THEN /\ calculations' =
               Put(calculations, p.id, Merge(calculations[p.id], DecisionUpdate(status)))
          /\ ops' = ops \cup {NewOp("decide", p.id, "issuing",
                                       [p |-> p, status |-> status, kyc |-> kycPending])}
          /\ UNCHANGED feedback
     ELSE /\ feedback' = "error"
          /\ UNCHANGED <<calculations, ops>>
  /\ UNCHANGED <<kyc_data, kycPending, loan_issuing, issuing>>
  /\ UNCHANGED browserVars
  /\ UNCHANGED viewVars
  /\ UNCHANGED <<processed_loans, loan_payments, modal, cards, alerts, decided>>

\* decideProposal: setDoc(loan_issuing/p.id, ..., {merge: true}); a denial
\* ends here
IssueSetDoc(o, ok) ==
  /\ o.kind = "decide" /\ o.pc = "issuing"
  /\ IF ok
     THEN /\ loan_issuing' =
               Put(loan_issuing, o.id,
                   Merge(IF o.id \in DOMAIN loan_issuing THEN loan_issuing[o.id] ELSE NoFields,
                         IssuingRecord(o.arg.p, o.arg.status)))
          /\ IF o.arg.status = "approved"
             THEN /\ ops' = (ops \ {o}) \cup {[o EXCEPT !.pc = "loan"]}
                  /\ UNCHANGED feedback
             ELSE /\ ops' = ops \ {o}
                  /\ feedback' = "success"
     ELSE /\ ops' = ops \ {o}
          /\ feedback' = "error"
          /\ UNCHANGED loan_issuing
  /\ UNCHANGED <<kyc_data, kycPending, calculations, issuing>>
  /\ UNCHANGED browserVars
  /\ UNCHANGED viewVars
  /\ UNCHANGED <<processed_loans, loan_payments, modal, cards, alerts, started, decided>>

\* decideProposal, approved: setDoc(loan_applications/p.id, newLoanPayload,
\* {merge: true})
IssueLoan(o, ok) ==
  /\ o.kind = "decide" /\ o.pc = "loan"
  /\ IF ok
     THEN /\ loan_applications' =
               Put(loan_applications, o.id,
                   Merge(IF o.id \in DOMAIN loan_applications
                         THEN loan_applications[o.id] ELSE NoFields,
                         newLoanPayload(o.arg.p, o.arg.kyc)))
          /\ feedback' = "success"
     ELSE /\ feedback' = "error"
          /\ UNCHANGED loan_applications
  /\ ops' = ops \ {o}
  /\ UNCHANGED <<clock, page>>
  /\ UNCHANGED <<kyc_data, kycPending, calculations, loan_issuing, issuing>>
  /\ UNCHANGED browserVars
  /\ UNCHANGED <<processed_loans, loan_payments, modal, cards, alerts, started, decided>>

\* the KYC record of the applicant
KycAnn ==
  [firstName |-> "Ann", lastName |-> "Banda", mobileTel1 |-> <<"0", "9", "9", "1">>,
   physicalCity |-> "Zomba", createdAt |-> TsOf("ts", T0 - 30 * Day)]

\* the calculator proposals: 12 carries neither an amount nor an applicant
Proposals ==
  (11 :> [userId |-> 1, loanType |-> "business", loanAmount |-> 500, months |-> 6,
          timestamp |-> TsOf("ts", T0 - Day)])
  @@ (12 :> [months |-> 3, createdAt |-> TsOf("ts", T0 - 2 * Day)])

\* a loan, repaid and closed, that an earlier approval of proposal 11 created
EarlierLoan ==
  [status |-> "closed", loanAmount |-> 500, currentBalance |-> 0, loanPeriod |-> 6,
   paymentFrequency |-> "weekly", timestamp |-> TsOf("ts", T0 - 60 * Day), calcRefId |-> 11]

\* the proposals once proposal 11 carries the decision of that approval
DecidedProposals ==
  Put(Proposals, 11,
      Merge(Proposals[11], [decision |-> [status |-> "approved", at |-> T0 - 60 * Day]]))

IssueInit ==
  /\ \/ /\ loan_applications \in {(1 :> FlowLoan(1)), (1 :> FlowLoan(1)) @@ (11 :> EarlierLoan)}
        /\ calculations = Proposals
     \/ /\ loan_applications = (1 :> FlowLoan(1)) @@ (11 :> EarlierLoan)
        /\ calculations = DecidedProposals
  /\ kyc_data = (1 :> KycAnn)
  /\ clock = MaxClock
  /\ page = [site |-> "none"]
  /\ processed_loans = NoFields
  /\ kycPending = <<>>
  /\ loan_issuing = NoFields
  /\ issuing = <<>>
  /\ feedback = "none"
  /\ FlowIdle
  /\ BrowserIdle

NextIssue ==
  \/ AdminMount
  \/ AdminOnSnapshot
  \/ KycOnSnapshot
  \/ IssuingOnSnapshot
  \/ \E p \in Range(issuing), status \in {"approved", "denied"}, ok \in BOOLEAN :
       DecideProposal(p, status, ok)
  \/ \E o \in ops, ok \in BOOLEAN : IssueSetDoc(o, ok)
  \/ \E o \in ops, ok \in BOOLEAN : IssueLoan(o, ok)

SpecIssue == IssueInit /\ [][NextIssue]_vars

----------------------------------------------------------------------------
(* Sign-in (src/app/auth/login.tsx).  signInWithEmailAndPassword and        *)
(* getIdTokenResult(user, true) are requests to the identity service and    *)
(* are rejected when net = FALSE; signOut clears the local session and      *)
(* makes no request.                                                        *)

\* the values a custom claim can hold
JsTrue == [k |-> "boolean", v |-> "true"]
JsFalse == [k |-> "boolean", v |-> "false"]
JsString(text) == [k |-> "string", v |-> text]

\* the accounts of the project: password and custom claims of each e-mail
Accounts ==
  ("admin@essa.mw" :> [password |-> "pw1", claims |-> [admin |-> JsTrue]])
  @@ ("officer@essa.mw" :> [password |-> "pw2", claims |-> [officer |-> JsTrue, admin |-> JsFalse]])
  @@ ("client@essa.mw" :> [password |-> "pw3", claims |-> NoFields])
  @@ ("clerk@essa.mw" :> [password |-> "pw4", claims |-> [admin |-> JsString("true")]])

\* what is typed into the form
EmailInputs == {" admin@essa.mw ", "officer@essa.mw", "client@essa.mw", "clerk@essa.mw",
                "nobody@essa.mw"}
PasswordInputs == {"pw1", "pw2", "pw3", "pw4"}

\* handleSubmit: the gate that takes every claim that is not false
allowedTruthy(claims) ==
  \/ Has(claims, "admin") /\ claims.admin # JsFalse
  \/ Has(claims, "officer") /\ claims.officer # JsFalse

\* handleSubmit: claims?.admin === true || claims?.officer === true
allowed(claims) ==
  \/ Has(claims, "admin") /\ claims.admin = JsTrue
  \/ Has(claims, "officer") /\ claims.officer = JsTrue

\* mapFirebaseError
mapFirebaseError(code) ==
  CASE code = "auth/invalid-credential"     -> "Invalid email or password."
    [] code = "auth/network-request-failed" -> "Network error. Check your connection."
    [] OTHER                                -> code

NoAccessMessage == "Your account doesn't have admin access. Contact a system admin."

\* LoginPage: first render
LoginMount ==
  /\ page.site = "none"
  /\ page' = [site |-> "login", loading |-> FALSE, error |-> "", path |-> "/auth/login"]
  /\ UNCHANGED <<loan_applications, clock>>
  /\ UNCHANGED flowVars
  /\ UNCHANGED issueVars
  /\ UNCHANGED browserVars

\* LoginPage.handleSubmit up to the await of signInWithEmailAndPassword; the
\* submit button is disabled while loading
HandleSubmit(email, password) ==
  /\ started < MaxSubmits
  /\ page.site = "login"
  /\ page.path = "/auth/login"
  /\ ~page.loading
  /\ page' = [page EXCEPT !.error = "", !.loading = TRUE]
  /\ ops' = ops \cup {NewOp("login", NoLoan, "signIn",
                            [email |-> trim(email), password |-> password])}
  /\ started' = started + 1
  /\ UNCHANGED <<loan_applications, clock, processed_loans, loan_payments, modal, cards,
                 alerts, decided>>
  /\ UNCHANGED issueVars
  /\ UNCHANGED browserVars

\* handleSubmit: signInWithEmailAndPassword answers
SignInDone(o, net) ==
  /\ o.kind = "login" /\ o.pc = "signIn"
  /\ IF net /\ o.arg.email \in DOMAIN Accounts
        /\ Accounts[o.arg.email].password = o.arg.password
     THEN /\ auth' = o.arg.email
          /\ ops' = (ops \ {o}) \cup {[o EXCEPT !.pc = "token"]}
          /\ UNCHANGED page
     ELSE /\ page' = [page EXCEPT
                        !.error = mapFirebaseError(IF net THEN "auth/invalid-credential"
                                                   ELSE "auth/network-request-failed"),
                        !.loading = FALSE]
          /\ ops' = ops \ {o}
          /\ UNCHANGED auth
  /\ UNCHANGED <<loan_applications, clock, processed_loans, loan_payments, modal, cards,
                 alerts, started, decided, localStorage>>
  /\ UNCHANGED issueVars

\* handleSubmit: getIdTokenResult answers; the gate, and router.push("/admin")
TokenDone(o, net) ==
  /\ o.kind = "login" /\ o.pc = "token"
  /\ IF ~net
     THEN /\ page' = [page EXCEPT !.error = mapFirebaseError("auth/network-request-failed"),
                                  !.loading = FALSE]
          /\ ops' = ops \ {o}
     ELSE IF allowed(Accounts[o.arg.email].claims)
     THEN /\ page' = [page EXCEPT !.path = "/admin", !.loading = FALSE]
          /\ ops' = ops \ {o}
     ELSE /\ ops' = (ops \ {o}) \cup {[o EXCEPT !.pc = "signOut"]}
          /\ UNCHANGED page
  /\ UNCHANGED <<loan_applications, clock, processed_loans, loan_payments, modal, cards,
                 alerts, started, decided>>
  /\ UNCHANGED issueVars
  /\ UNCHANGED browserVars

\* handleSubmit: signOut is done; the error thrown for the missing role
SignOutDone(o) ==
  /\ o.kind = "login" /\ o.pc = "signOut"
  /\ auth' = NoAccount
  /\ page' = [page EXCEPT !.error = mapFirebaseError(NoAccessMessage), !.loading = FALSE]
  /\ ops' = ops \ {o}
  /\ UNCHANGED <<loan_applications, clock, processed_loans, loan_payments, modal, cards,
                 alerts, started, decided, localStorage>>
  /\ UNCHANGED issueVars

LoginInit ==
  /\ loan_applications = NoFields
  /\ clock = T0
  /\ page = [site |-> "none"]
  /\ processed_loans = NoFields
  /\ FlowIdle
  /\ BrowserIdle
  /\ IssueIdle

NextLogin ==
  \/ LoginMount
  \/ \E email \in EmailInputs, password \in PasswordInputs : HandleSubmit(email, password)
  \/ \E o \in ops, net \in BOOLEAN : SignInDone(o, net)
  \/ \E o \in ops, net \in BOOLEAN : TokenDone(o, net)
  \/ \E o \in ops : SignOutDone(o)

SpecLogin == LoginInit /\ [][NextLogin]_vars

----------------------------------------------------------------------------
(* KYC list page: the list route and the badge of unseen records *)

\* GET /api/admin/kyc (list): v?.createdAt?.toMillis?.() ?? v?.timestamp?.toMillis?.() ?? null
ListMillis(v) == IF v.k = "ts" THEN v.ms ELSE NullMs

\* GET /api/admin/kyc (list): one item of the response
KycListItem(id, v) ==
  [id        |-> id,
   firstName |-> Coalesce(v, <<"firstName", "applicantFirstName">>, ""),
   lastName  |-> Coalesce(v, <<"lastName", "applicantLastName">>, ""),
   createdAt |-> OrMs(ListMillis(Coalesce(v, <<"createdAt">>, NullTs)),
                      ListMillis(Coalesce(v, <<"timestamp">>, NullTs)))]

\* orderBy("createdAt", "desc").orderBy("timestamp", "desc").limit(n): an ordered
\* query returns the documents that carry both fields
KycOrderedQuery(coll, n) ==
  LET ids == SetToSeq({i \in DOMAIN coll : Has(coll[i], "createdAt") /\ Has(coll[i], "timestamp")})
  IN Slice(SortAsc(ids, LAMBDA i : 0 - coll[i].createdAt.ms), n)

\* GET /api/admin/kyc (list): the JSON body; ordered is false when the ordered
\* query is rejected and the route falls back to limit(n) alone
KycListGET(ordered, n) ==
  LET ids == IF ordered THEN KycOrderedQuery(kyc_data, n) ELSE PlainQuery(kyc_data, n)
  IN [items |-> MapDocs(ids, kyc_data, KycListItem), updatedAt |-> clock]

\* localStorage.getItem("kycLastSeen") || "0", read as a number; String(ts) of
\* a whole number of milliseconds reads back as the same number
kycLastSeen == IF Has(localStorage, "kycLastSeen") THEN localStorage.kycLastSeen ELSE 0

\* items.filter((k) => (k.createdAt ?? 0) > lastSeen).length
unseenCount(items, lastSeen) ==
  Cardinality({i \in 1..Len(items) : OrMs(items[i].createdAt, 0) > lastSeen})

\* KycListPage: first render, before the list has been fetched; the effect of
\* [items] sets unseen to 0 for the empty list
KycListMount ==
  /\ page.site = "none"
  /\ page' = [site |-> "kyc", items |-> <<>>, latestTs |-> 0, unseen |-> 0, initRef |-> FALSE]
  /\ UNCHANGED <<loan_applications, clock>>
  /\ UNCHANGED flowVars
  /\ UNCHANGED issueVars
  /\ UNCHANGED browserVars

\* KycListPage: a response of the list route arrives (first fetch, the 15 s
\* refresh or the Refresh button), the page renders and its two effects run in
\* the order they are declared: the initialisation of the marker, then the count
KycListData(ordered) ==
  /\ page.site = "kyc"
  /\ LET data     == KycListGET(ordered, 100)
         items    == data.items
         latestTs == IF Has(data, "latestCreatedAt") THEN data.latestCreatedAt ELSE 0
         init     == ~page.initRef /\ latestTs # 0
         stored   == IF init /\ kycLastSeen = 0
                     THEN Merge(localStorage, [kycLastSeen |-> latestTs])
                     ELSE localStorage
         lastSeen == IF Has(stored, "kycLastSeen") THEN stored.kycLastSeen ELSE 0
     IN /\ localStorage' = stored
        /\ page' = [page EXCEPT !.items = items,
                                !.latestTs = latestTs,
                                !.initRef = page.initRef \/ init,
                                !.unseen = IF Len(items) = 0 THEN 0
                                           ELSE unseenCount(items, lastSeen)]
  /\ UNCHANGED <<loan_applications, clock, auth>>
  /\ UNCHANGED flowVars
  /\ UNCHANGED issueVars

\* KycListPage.markAllSeen: the button is rendered while unseen > 0
markAllSeen ==
  /\ page.site = "kyc"
  /\ page.unseen > 0
  /\ LET ts == IF page.latestTs # 0 THEN page.latestTs ELSE clock
     IN localStorage' = Merge(localStorage, [kycLastSeen |-> ts])
  /\ page' = [page EXCEPT !.unseen = 0]
  /\ UNCHANGED <<loan_applications, clock, auth>>
  /\ UNCHANGED flowVars
  /\ UNCHANGED issueVars

\* a client submits a KYC form: kyc_data gains a record stamped with the time
\* of the write; the query of the list route reads the collection afterwards
KycSubmitted(d) ==
  /\ Cardinality(DOMAIN kyc_data) < MaxKyc
  /\ clock' = clock + d
  /\ kyc_data' = Put(kyc_data, Cardinality(DOMAIN kyc_data) + 1,
                     [firstName |-> "Eve", lastName |-> "Phiri",
                      createdAt |-> TsOf("ts", clock + d),
                      timestamp |-> TsOf("ts", clock + d)])
  /\ UNCHANGED <<loan_applications, page, kycPending, calculations, loan_issuing,
                 issuing, feedback>>
  /\ UNCHANGED flowVars
  /\ UNCHANGED browserVars

\* records submitted before the page is opened: 2 carries no timestamp field
EarlierKyc ==
  (1 :> [firstName |-> "Ann", lastName |-> "Banda",
         createdAt |-> TsOf("ts", T0 - 3 * Day), timestamp |-> TsOf("ts", T0 - 3 * Day)])
  @@ (2 :> [firstName |-> "Ben", lastName |-> "Chirwa",
            createdAt |-> TsOf("ts", T0 - 2 * Day)])

KycListInit ==
  /\ loan_applications = NoFields
  /\ clock = T0
  /\ page = [site |-> "none"]
  /\ processed_loans = NoFields
  /\ FlowIdle
  /\ auth = NoAccount
  /\ localStorage \in {NoFields, [kycLastSeen |-> T0 - 3 * Day]}
  /\ kyc_data \in {[i \in 1..n |-> EarlierKyc[i]] : n \in 0..2}
  /\ kycPending = <<>>
  /\ calculations = NoFields
  /\ loan_issuing = NoFields
  /\ issuing = <<>>
  /\ feedback = "none"

NextKycList ==
  \/ KycListMount
  \/ \E ordered \in BOOLEAN : KycListData(ordered)
  \/ markAllSeen
  \/ \E d \in Skews : KycSubmitted(d)

SpecKycList == KycListInit /\ [][NextKycList]_vars

----------------------------------------------------------------------------
(* Classification of a snapshot: no write handler runs *)

ViewInit ==
  /\ loan_applications \in {StoreOf(f, k, n) : f \in FreeKinds, k \in FillKinds, n \in FillCounts}
  /\ clock \in T0..MaxClock
  /\ page = [site |-> "none"]
  /\ processed_loans = NoFields
  /\ FlowIdle
  /\ BrowserIdle
  /\ IssueIdle

ViewNext ==
  \/ DashboardMount
  \/ DashboardOnSnapshot
  \/ DashboardRefresh
  \/ ApiGET
  \/ OmOnSnapshot

SpecView == ViewInit /\ [][ViewNext]_vars

\* loan i of a snapshot in which balances, end instants and insertion order
\* (newest start first) all disagree
SliceLoan(i, shift) ==
  Merge([status          |-> IF i % 4 = 0 THEN "closed" ELSE "approved",
         loanAmount      |-> 100,
         currentBalance  |-> IF i % 4 = 0 THEN 0 ELSE 10 + ((i * 4 + shift) % SliceLoans) * 10,
         collateralItems |-> i % 2],
        LoanEndingAt(T0 + (((i * 2 + shift) % SliceLoans) - 4) * Day))

SliceInit ==
  /\ loan_applications \in {[i \in 1..SliceLoans |-> SliceLoan(i, shift)] :
                              shift \in 0..(SliceLoans - 1)}
  /\ clock \in T0..MaxClock
  /\ page = [site |-> "none"]
  /\ processed_loans = NoFields
  /\ FlowIdle
  /\ BrowserIdle
  /\ IssueIdle

SpecSlices == SliceInit /\ [][ViewNext]_vars

(* the views of the classification run held by the page *)
Classified == page.site \in {"dashboard", "outstanding"} \/ (page.site = "api" /\ ~page.error)

HasViews == Classified /\ page.site \in {"dashboard", "api"}

ViewOutstanding ==
  CASE page.site = "dashboard"   -> outstanding(page.loans)
    [] page.site = "api"         -> ApiOutstanding(page.loans)
    [] page.site = "outstanding" -> OmOutstanding(page.loans)

ViewOutstandingTop ==
  CASE page.site = "dashboard"   -> outstandingTop(page.loans)
    [] page.site = "api"         -> ApiOutstandingTop(page.loans)
    [] page.site = "outstanding" -> OmOutstanding(page.loans)

ViewDeadlines ==
  CASE page.site = "dashboard" -> deadlinesUpcoming(page.loans, page.now, page.soon)
    [] page.site = "api"       -> ApiDeadlinesUpcoming(page.loans, page.now, page.soon)
    [] OTHER                   -> <<>>

ViewOverdue ==
  CASE page.site = "dashboard" -> overdueWithCollateral(page.loans, page.now)
    [] page.site = "api"       -> ApiOverdueWithCollateral(page.loans, page.now)
    [] OTHER                   -> <<>>

ViewFinished ==
  CASE page.site = "dashboard"   -> finished(page.loans)
    [] page.site = "api"         -> ApiFinished(page.loans)
    [] page.site = "outstanding" -> OmFinished(page.loans)

ViewTotals ==
  CASE page.site = "dashboard" -> totals(page.loans, page.now)
    [] page.site = "api"       -> ApiTotals(page.loans, page.now)

Rows == IF Classified THEN Range(page.loans) ELSE {}
In(r, view) == r \in Range(view)
Ascending(view) == \A i, j \in 1..Len(view) : i < j => view[i].endDate <= view[j].endDate
CountOf(P(_)) == Cardinality({k \in 1..Len(page.loans) : P(page.loans[k])})

\* the conditions as the claims state them
ActiveWithBalance(r) == normalizeStatus(r.status) \in {"approved", "active"} /\ r.currentBalance > 0
Upcoming(r) == ActiveWithBalance(r) /\ r.endDate # NullMs
               /\ page.now <= r.endDate /\ r.endDate <= page.now + 14 * Day
OverdueCollateral(r) == ActiveWithBalance(r) /\ r.endDate # NullMs
                        /\ r.endDate < page.now /\ r.collateralItems > 0
IsFinished(r) == r.currentBalance <= 0 \/ normalizeStatus(r.status) = "closed"

----------------------------------------------------------------------------
(* C1: in every classification run a loan is in Outstanding exactly when   *)
(* its normalized status is approved or active and its balance is          *)
(* positive, at each of the three places that derive Outstanding.          *)
C1_OutstandingIffActiveWithBalance ==
  Classified =>
    /\ \A r \in Rows : In(r, ViewOutstanding) <=> ActiveWithBalance(r)
    /\ \A r \in Rows : r.currentBalance <= 0 => ~In(r, ViewOutstandingTop)

(* C2: every loan of Deadlines-upcoming is active with balance and ends    *)
(* within [now, now + 14 days]; the view is ascending in the end instant   *)
(* and holds the (at most 8) earliest-ending qualifying loans.             *)
C2_DeadlinesWithinFourteenDays ==
  HasViews =>
    /\ \A r \in Range(ViewDeadlines) : r \in Rows /\ Upcoming(r)
    /\ Ascending(ViewDeadlines)
    /\ Len(ViewDeadlines) <= 8
    /\ \A r \in Rows : Upcoming(r) /\ ~In(r, ViewDeadlines) =>
          \A q \in Range(ViewDeadlines) : q.endDate <= r.endDate

(* C3: Overdue-with-collateral holds only active loans with balance, an    *)
(* end instant before now and at least one collateral item; it is empty    *)
(* when no loan qualifies; it is ascending in the end instant (longest     *)
(* overdue first) and holds at most 8 loans, the longest-overdue ones.     *)
C3_OverdueWithCollateral ==
  HasViews =>
    /\ \A r \in Range(ViewOverdue) : r \in Rows /\ OverdueCollateral(r)
    /\ (~\E r \in Rows : OverdueCollateral(r)) => ViewOverdue = <<>>
    /\ Ascending(ViewOverdue)
    /\ Len(ViewOverdue) = Min(8, CountOf(OverdueCollateral))
    /\ \A r \in Rows : OverdueCollateral(r) /\ ~In(r, ViewOverdue) =>
          \A q \in Range(ViewOverdue) : q.endDate <= r.endDate

C3_Witness ==
  /\ HasViews
  /\ Len(ViewOverdue) = 8
  /\ CountOf(OverdueCollateral) > 8
  /\ ViewOverdue[1].endDate < ViewOverdue[2].endDate

(* C4: a loan whose balance is at most 0 passes the Finished filter and    *)
(* is in none of Outstanding, Deadlines-upcoming and                       *)
(* Overdue-with-collateral, whatever its status and end instant.           *)
C4_ZeroBalanceIsFinishedOnly ==
  Classified =>
    \A r \in Rows : r.currentBalance <= 0 =>
      /\ In(r, ViewFinished) \/ (HasViews /\ Len(ViewFinished) = 8)
      /\ ~In(r, ViewOutstanding)
      /\ ~In(r, ViewOutstandingTop)
      /\ ~In(r, ViewDeadlines)
      /\ ~In(r, ViewOverdue)

\* a paid-off loan still marked approved whose end lies in the 14-day window
C4_Witness ==
  /\ HasViews
  /\ \E r \in Rows : /\ r.currentBalance = 0
                       /\ r.status = "approved"
                       /\ r.endDate # NullMs
                       /\ page.now <= r.endDate /\ r.endDate <= page.now + 14 * Day
                       /\ In(r, ViewFinished)

(* C5: the totals are computed over the unbounded sets: finishedCount is   *)
(* the number of all loans passing the Finished filter, outstandingCount   *)
(* and outstandingBalanceSum cover every Outstanding loan.                 *)
C5_TotalsOverUnboundedSets ==
  HasViews =>
    /\ ViewTotals.finishedCount = CountOf(IsFinished)
    /\ ViewTotals.outstandingCount = CountOf(ActiveWithBalance)
    /\ ViewTotals.outstandingBalanceSum =
         SumSeq(Filter(page.loans, ActiveWithBalance), LAMBDA r : r.currentBalance)

PastEndWithBalance(r) == r.endDate # NullMs /\ r.endDate < page.now /\ r.currentBalance > 0

(* C6: overdueCount is the number of loans whose end instant is before     *)
(* now and whose balance is positive, with or without collateral; it is    *)
(* at least the number of loans passing the Overdue-with-collateral        *)
(* filter, and a loan without collateral is counted although it is in      *)
(* neither deadline view.                                                  *)
C6_OverdueCountIgnoresCollateral ==
  HasViews =>
    /\ ViewTotals.overdueCount = CountOf(PastEndWithBalance)
    /\ ViewTotals.overdueCount >= CountOf(OverdueCollateral)
    /\ ViewTotals.overdueCount >= Len(ViewOverdue)
    /\ \A r \in Rows : PastEndWithBalance(r) /\ r.collateralItems = 0 =>
          ~In(r, ViewDeadlines) /\ ~In(r, ViewOverdue)

\* an active loan 20 days past its end, without collateral, next to listed ones
C6_Witness ==
  /\ HasViews
  /\ \E r \in Rows : /\ ActiveWithBalance(r)
                       /\ r.endDate # NullMs
                       /\ r.endDate <= page.now - 20 * Day
                       /\ r.collateralItems = 0
  /\ Len(ViewOverdue) > 0
  /\ ViewTotals.overdueCount > CountOf(OverdueCollateral)

----------------------------------------------------------------------------
(* Classification of the stored loans, as the next run of each classifier  *)
(* would produce it                                                        *)

Listed(x, view) == \E r \in Range(view) : r.id = x
DashRun(store) == MapDocs(OrderedQuery(store, 200), store, DashRow)
ApiRun(store)  == MapDocs(OrderedQuery(store, 200), store, ApiRow)
OmRun(store)   == MapDocs(OrderedQuery(store, 500), store, OmRow)

InActiveView(x, store) ==
  \/ Listed(x, outstanding(DashRun(store)))
  \/ Listed(x, deadlinesUpcoming(DashRun(store), clock, clock + 14 * Day))
  \/ Listed(x, overdueWithCollateral(DashRun(store), clock))
  \/ Listed(x, ApiOutstanding(ApiRun(store)))
  \/ Listed(x, ApiDeadlinesUpcoming(ApiRun(store), clock, clock + 14 * Day))
  \/ Listed(x, ApiOverdueWithCollateral(ApiRun(store), clock))
  \/ Listed(x, OmOutstanding(OmRun(store)))

InOutstanding(x, store) ==
  \/ Listed(x, outstanding(DashRun(store)))
  \/ Listed(x, ApiOutstanding(ApiRun(store)))
  \/ Listed(x, OmOutstanding(OmRun(store)))

InFinished(x, store) ==
  /\ Listed(x, finished(DashRun(store)))
  /\ Listed(x, ApiFinished(ApiRun(store)))
  /\ Listed(x, OmFinished(OmRun(store)))

StoredBalance(doc) == Num2(doc, "currentBalance", "loanAmount")
StoredStatus(doc) == normalizeStatus(Str(doc, "status"))

(* C7: when an Accept or Decline of loan x completes, x is absent from     *)
(* loan_applications and present in processed_loans with processedStatus   *)
(* equal to the decision, and no classifier lists x in Outstanding,        *)
(* Deadlines-upcoming or Overdue-with-collateral.                          *)
C7_DecisionMovesLoan ==
  [][\A o \in ops : MoveDelete(o, TRUE) =>
       /\ o.id \notin DOMAIN loan_applications'
       /\ o.id \in DOMAIN processed_loans'
       /\ processed_loans'[o.id].processedStatus = o.arg.next
       /\ ~InActiveView(o.id, loan_applications')]_vars

(* C8: when a Consider of the processed record of x completes,             *)
(* processed_loans/x is gone and loan_applications/x holds exactly the     *)
(* document x held before its decision; a record without a stored original *)
(* is rebuilt from the summary with status approved if it was approved     *)
(* and pending otherwise.                                                  *)
C8_ConsiderRestoresOriginal ==
  [][/\ \A x \in DOMAIN processed_loans : Consider(x) =>
          LET p == ProcessedRow(x, processed_loans[x])
          IN IF HasOriginal(p)
             THEN loan_applications'[x] = decided[x]
             ELSE /\ loan_applications'[x].status =
                       (IF p.processedStatus = "approved" THEN "approved" ELSE "pending")
                  /\ loan_applications'[x].currentBalance = p.currentBalance
     /\ \A o \in ops : ConsiderDelete(o, TRUE) => o.id \notin DOMAIN processed_loans']_vars

(* C9: a payment a > 0 on a loan with balance b stores one payment record  *)
(* and sets the balance to max(0, b - a): lower than b when b > 0, never   *)
(* negative, with status closed at 0 and the same status otherwise; a      *)
(* rejected amount stores nothing and changes no document.                 *)
C9_PaymentLowersBalance ==
  [][/\ \A o \in ops : PayUpdate(o, TRUE) /\ o.id \in DOMAIN loan_applications =>
          LET b  == StoredBalance(loan_applications[o.id])
              nb == loan_applications'[o.id].currentBalance
          IN /\ nb = Max(0, b - o.arg.amount)
             /\ nb >= 0
             /\ b > 0 => nb < b
             /\ StoredStatus(loan_applications'[o.id]) =
                  (IF nb = 0 THEN "closed" ELSE StoredStatus(loan_applications[o.id]))
     /\ \A x \in LoanIds, text \in AmountInputs : HandleSave(x, text, TRUE) =>
          /\ loan_payments' = Append(loan_payments, [loan |-> x, amount |-> NumberOf(text).n])
          /\ NumberOf(text).n > 0
     /\ \A x \in LoanIds, text \in AmountInputs : HandleSaveInvalid(x, text) =>
          UNCHANGED <<loan_applications, loan_payments, processed_loans, ops>>]_vars

(* C10: mark-as-finished sets the stored status to closed and the balance  *)
(* to 0 in one write whatever they were, leaving the other fields and      *)
(* loans alone; the loan then passes the Finished filter of every          *)
(* classifier and is in no Outstanding set.  When the write is rejected    *)
(* no document changes and the card shows an error.                        *)
C10_MarkAsFinished ==
  [][\A x \in LoanIds, ok \in BOOLEAN : CloseLoan(x, ok) =>
       IF ok /\ x \in DOMAIN loan_applications
       THEN /\ DOMAIN loan_applications' = DOMAIN loan_applications
            /\ loan_applications'[x].status = "closed"
            /\ loan_applications'[x].currentBalance = 0
            /\ \A f \in DOMAIN loan_applications[x] \ {"status", "currentBalance"} :
                 loan_applications'[x][f] = loan_applications[x][f]
            /\ \A y \in DOMAIN loan_applications \ {x} :
                 loan_applications'[y] = loan_applications[y]
            /\ InFinished(x, loan_applications')
            /\ ~InOutstanding(x, loan_applications')
            /\ ~cards'[x].err
       ELSE /\ loan_applications' = loan_applications
            /\ cards'[x].err]_vars

\* a loan with a balance and no payment that now reads closed with balance 0
C10_Witness ==
  \E x \in DOMAIN loan_applications :
    /\ loan_applications[x].status = "closed"
    /\ loan_applications[x].currentBalance = 0
    /\ StoredBalance(FlowLoan(x)) > 0
    /\ \A k \in 1..Len(loan_payments) : loan_payments[k].loan # x
    /\ ~cards[x].err

----------------------------------------------------------------------------
(* One loan under every reader: the shapes a stored loan and a stored KYC  *)
(* record can have, read by the four pages and by the preview modal        *)

\* the start for which two weekly periods end five ticks before T0
RowStart == T0 - 14 * Day - 5

RowBase ==
  [status |-> "approved", loanAmount |-> 150, currentBalance |-> 50, collateralItems |-> 1]

\* the raw status: absent, empty, the finished words in several cases, others
RawStatuses ==
  {NoFields, [status |-> ""], [status |-> "Completed"], [status |-> "COMPLETE"],
   [status |-> "finished"], [status |-> "APPROVED"], [status |-> "overdue"]}

StatusDocs ==
  {Merge(Merge([loanAmount |-> 150, collateralItems |-> 1], Merge(st, bal)),
         LoanEndingAt(T0 + Day)) :
     st \in RawStatuses, bal \in {NoFields, [currentBalance |-> 50], [currentBalance |-> 0]}}

\* the stored start: every shape toMillis distinguishes, and no start at all
StartShapes ==
  {[timestamp |-> TsOf(k, RowStart)] : k \in {"ts", "secs", "str", "num", "date"}}
  \cup {[timestamp |-> TsOf(k, NullMs)] : k \in {"badstr", "nan", "obj", "throws"}}
  \cup {[timestamp |-> TsOf("num", 0)], NoFields}

PeriodShapes ==
  {NoFields,
   [loanPeriod |-> 0, paymentFrequency |-> "weekly"],
   [loanPeriod |-> 2, paymentFrequency |-> "weekly"],
   [loanPeriod |-> 2]}

StartDocs == {Merge(RowBase, Merge(st, pe)) : st \in StartShapes, pe \in PeriodShapes}

\* an explicit end next to a computed end of T0 - 5
ExplicitEnds ==
  {[endDate |-> TsOf("ts", T0 + 3 * Day)],
   [maturityDate |-> TsOf("ts", T0 + 3 * Day)],
   [endDate |-> TsOf("secs", T0 - 9)],
   [endDate |-> TsOf("str", T0 - 2 * Day)],
   [endDate |-> TsOf("badstr", NullMs)]}

ExplicitDocs ==
  {Merge(Merge(RowBase, [timestamp |-> TsOf("ts", RowStart), loanPeriod |-> 2,
                         paymentFrequency |-> "weekly"]), e) : e \in ExplicitEnds}

Phone0991    == <<"0", "9", "9", "1">>
Phone265991  == <<"+", "2", "6", "5", " ", "9", "9", "1">>
Phone0882    == <<"0", "8", "8", "2">>

\* names, phones and areas under their aliases
NameShapes ==
  {NoFields,
   [mobile |-> Phone265991],
   [firstName |-> "Ann", mobileTel |-> Phone0991],
   [firstName |-> "Ann", surname |-> "Phiri", areaName |-> "Mzuzu", mobile |-> Phone0991],
   [firstName |-> "Ann", surname |-> "Banda"],
   [name |-> "Ann Banda", mobile |-> Phone0882],
   [firstName |-> "Ann"],
   [mobileTel |-> <<>>, mobile |-> Phone0991],
   [firstName |-> "", applicantFirstName |-> "Ann", surname |-> "Banda", areaName |-> "",
    city |-> "Zomba"]}

NameDocs == {Merge(Merge(RowBase, LoanEndingAt(T0 + Day)), n) : n \in NameShapes}

\* KYC records: one reached by phone, one reached by name only
KycByPhone ==
  [firstName |-> "Annie", lastName |-> "Banda", mobileTel1 |-> Phone0991,
   physicalCity |-> "Zomba", createdAt |-> TsOf("secs", T0 - 30 * Day)]
KycByName ==
  [firstName |-> "ANN", lastName |-> "Banda ", physicalCity |-> "Lilongwe",
   createdAt |-> TsOf("ts", T0 - 20 * Day)]

KycStores == {NoFields, (1 :> KycByPhone), (1 :> KycByPhone) @@ (2 :> KycByName)}

RowInit ==
  /\ \/ /\ loan_applications \in {(1 :> v) : v \in NameDocs}
        /\ kyc_data \in KycStores
     \/ /\ loan_applications \in {(1 :> v) : v \in StatusDocs \cup StartDocs \cup ExplicitDocs}
        /\ kyc_data = (1 :> KycByPhone)
  /\ clock \in T0..MaxClock
  /\ page = [site |-> "none"]
  /\ processed_loans = NoFields
  /\ kycPending = <<>>
  /\ calculations = NoFields
  /\ loan_issuing = NoFields
  /\ issuing = <<>>
  /\ feedback = "none"
  /\ FlowIdle
  /\ BrowserIdle

\* a row of the list is clicked once the page shows the loans
RowNext ==
  \/ DashboardMount
  \/ DashboardOnSnapshot
  \/ AdminMount
  \/ AdminOnSnapshot
  \/ KycOnSnapshot
  \/ ApiGET
  \/ OmOnSnapshot
  \/ \E x \in DOMAIN loan_applications :
       page.site \in {"dashboard", "admin"} /\ page.loans # <<>> /\ ModalOpen(x)
  \/ \E x \in DOMAIN loan_applications : page.site = "dashboard" /\ ModalLoaded(x)
  \/ \E x \in DOMAIN loan_applications : PreviewLoaded(x)

SpecRow == RowInit /\ [][RowNext]_vars

\* the stored loan and the row a page holds for it
RowDoc == loan_applications[1]
HasRow == /\ page.site \in {"dashboard", "admin", "outstanding"} \/ (page.site = "api" /\ ~page.error)
          /\ page.loans # <<>>
TheRow == page.loans[1]

----------------------------------------------------------------------------
(* Calculator proposals *)

IdsOf(rows) == {rows[i].id : i \in 1..Len(rows)}

\* the loan under id x was written by an approval made in this behaviour
Materialized(x) ==
  /\ x \in DOMAIN loan_applications
  /\ Has(loan_applications[x], "calcRefId")
  /\ loan_applications[x].timestamp.ms >= T0

\* the step completes decideProposal(o.arg.p, o.arg.status) with success
Completes(o) ==
  /\ o.kind = "decide"
  /\ ops' = ops \ {o}
  /\ feedback' = "success"

\* C11: an approval that completes leaves, under the proposal's id, a loan
\* with status approved, loanAmount = currentBalance = p.loanAmount,
\* loanPeriod = p.months and monthly frequency; a classification run of the
\* page after it lists the loan in Outstanding when p.loanAmount > 0; a
\* denial that completes has recorded the decision, and no step of a denial
\* changes loan_applications.
C11_ApproveMaterializesLoan ==
  [][/\ \A o \in ops :
          Completes(o) /\ o.arg.status = "approved" =>
            /\ o.id \in DOMAIN loan_applications'
            /\ loan_applications'[o.id].status = "approved"
            /\ loan_applications'[o.id].loanAmount = o.arg.p.loanAmount
            /\ loan_applications'[o.id].currentBalance = o.arg.p.loanAmount
            /\ loan_applications'[o.id].loanPeriod = o.arg.p.months
            /\ loan_applications'[o.id].paymentFrequency = "monthly"
     /\ \A o \in ops :
          Completes(o) /\ o.arg.status = "denied" =>
            /\ loan_issuing'[o.id].status = "denied"
            /\ calculations[o.id].decision.status \in {"approved", "denied"}
     /\ loan_applications' # loan_applications =>
          \E o \in ops : o.kind = "decide" /\ o.pc = "loan" /\ o.arg.status = "approved"
     /\ AdminOnSnapshot =>
          \A x \in DOMAIN loan_applications :
            Materialized(x) /\ loan_applications[x].loanAmount > 0 =>
              x \in IdsOf(outstanding(page'.loans))]_vars

\* proposal 11 was approved over the closed loan of an earlier approval, and
\* the next run lists the loan in Outstanding
C11_Witness ==
  /\ page.site = "admin"
  /\ feedback = "success"
  /\ Materialized(11)
  /\ Has(loan_applications[11], "currentBalance")
  /\ loan_applications[11].loanAmount = 500
  /\ loan_applications[11].firstName = "Ann"
  /\ loan_applications[11].paymentFrequency = "monthly"
  /\ 11 \in IdsOf(outstanding(page.loans))

----------------------------------------------------------------------------
(* Status normalization *)

FinishedWords == {"finished", "complete", "completed"}

\* the Finished list of the page
RowFinished ==
  CASE page.site \in {"dashboard", "admin"} -> finished(page.loans)
    [] page.site = "api"                     -> ApiFinished(page.loans)
    [] page.site = "outstanding"             -> OmFinished(page.loans)

\* C12: in every classifier the row of a loan carries the lower-cased raw
\* status, with finished, complete and completed (in any letter case)
\* replaced by closed; no row carries one of the three words, and a loan
\* whose raw status is one of them is in Finished whatever its balance.
C12_StatusNormalization ==
  HasRow =>
    LET raw == Str(RowDoc, "status")
    IN /\ TheRow.status \notin FinishedWords
       /\ toLowerCase(raw) \in FinishedWords =>
            TheRow.status = "closed" /\ 1 \in IdsOf(RowFinished)
       /\ ~Falsy(raw) /\ toLowerCase(raw) \notin FinishedWords =>
            TheRow.status = toLowerCase(raw)

\* the status shown by the preview modal once the loan is loaded
PreviewShown == modal.loanId # NoLoan /\ ~IsNull(modal.data)

\* C13: a raw status that is absent or empty becomes pending in every row
\* and in the preview modal, and no status is the text "undefined".
C13_AbsentStatusIsPending ==
  /\ HasRow =>
       /\ TheRow.status # "undefined"
       /\ Falsy(Str(RowDoc, "status")) => TheRow.status = "pending"
  /\ PreviewShown =>
       /\ modal.data.status # "undefined"
       /\ Falsy(Str(modal.loanRaw, "status")) => modal.data.status = "pending"

----------------------------------------------------------------------------
(* End instants *)

NoExplicitEnd(v) == \A i \in 1..Len(EndAliases) : ~Has(v, EndAliases[i])

\* the end instant a page holds for the loan
RowEnd == IF page.site = "outstanding" THEN TheRow.endMs ELSE TheRow.endDate

\* start + period x 7 days when weekly, start + period calendar months
\* otherwise; null without a positive period or a start that resolves
EndOf(start, period, freq) ==
  IF period <= 0 \/ toMillis(start) = NullMs THEN NullMs
  ELSE IF freq = "weekly" THEN toMillis(start) + period * 7 * Day
       ELSE setMonth(toMillis(start), period)

\* C14: computeEndDate never fails, and for a loan without an explicit end
\* every reader holds the end instant that the start, the period and the
\* frequency determine: null when the period is absent or <= 0 or the start
\* does not resolve, start + period x 7 days when weekly, start + period
\* calendar months otherwise.
C14_ComputeEndDate ==
  /\ page.site = "api" => ~page.error
  /\ HasRow /\ NoExplicitEnd(RowDoc) =>
       RowEnd = EndOf(IF Has(RowDoc, "timestamp") THEN RowDoc.timestamp ELSE NullTs,
                      NumOr0(RowDoc, "loanPeriod"),
                      IF Has(RowDoc, "paymentFrequency") THEN RowDoc.paymentFrequency
                      ELSE "monthly")

\* the explicit maturity date of a stored loan, under any of its aliases
ExplicitEnd(v) == firstDefined(v, EndAliases, NullTs)

\* C15: in every classifier the end instant of a loan is its explicit
\* maturity date when the record carries one that resolves, and the computed
\* one when the record carries none.
C15_ExplicitEndFirst ==
  HasRow =>
    /\ toMillis(ExplicitEnd(RowDoc)) # NullMs => RowEnd = toMillis(ExplicitEnd(RowDoc))
    /\ NoExplicitEnd(RowDoc) =>
         RowEnd = EndOf(IF Has(RowDoc, "timestamp") THEN RowDoc.timestamp ELSE NullTs,
                        NumOr0(RowDoc, "loanPeriod"),
                        IF Has(RowDoc, "paymentFrequency") THEN RowDoc.paymentFrequency
                        ELSE "monthly")

----------------------------------------------------------------------------
(* toMillis *)

Unrecognized == {"null", "nan", "badstr", "obj", "throws"}

\* what toMillis is to return for value v, where it is determined: null for
\* the shapes that are not recognized, seconds x 1000 for {seconds, ...}
MillisAsClaimed(v, ms) ==
  /\ v.k \in Unrecognized => ms = NullMs
  /\ v.k = "secs" => ms = v.ms

\* the stored createdAt of the KYC record of a row
CreatedAtOf(r) == Coalesce(kyc_data[r.id], <<"createdAt">>, NullTs)

\* C16: every copy of toMillis returns null for a shape it does not
\* recognize and seconds x 1000 for a {seconds, nanoseconds} structure, and
\* no reader fails on a stored value: the start instant of the
\* outstanding-management rows and of the preview, and the createdAt of the
\* KYC rows of the dashboard and of the overview API.
C16_ToMillisTotal ==
  /\ page.site = "outstanding" /\ HasRow =>
       MillisAsClaimed(TheRow.timestamp, TheRow.startMs)
  /\ PreviewShown =>
       MillisAsClaimed(Coalesce(modal.loanRaw, <<"timestamp">>, NullTs), modal.data.startMs)
  /\ \A i \in 1..Len(kycPending) :
       Has(kyc_data[kycPending[i].id], "createdAt") =>
         MillisAsClaimed(CreatedAtOf(kycPending[i]), kycPending[i].createdAt)
  /\ page.site = "api" /\ ~page.error =>
       \A i \in 1..Len(page.kycPending) :
         Has(kyc_data[page.kycPending[i].id], "createdAt") =>
           MillisAsClaimed(CreatedAtOf(page.kycPending[i]), page.kycPending[i].createdAt)

----------------------------------------------------------------------------
(* Overdue days and late fee *)

\* n = ceil(diff / one day), for diff > 0
IsCeil(n, diff) == n * Day >= diff /\ (n - 1) * Day < diff

\* overdue days and fee as a function of the end instant, now and the balance
FeeAsClaimed(endMs, now, balance, overdueDays, fee) ==
  /\ IF endMs # NullMs /\ endMs < now
     THEN IsCeil(overdueDays, now - endMs)
     ELSE overdueDays = 0
  /\ fee = IF overdueDays > 0 THEN balance * LateFeeDailyPerMille * overdueDays ELSE 0

\* the end instant from which the outstanding-management page derives:
\* the stored endDate when there is one (null if it does not resolve), the
\* computed end otherwise
OmEndInstant(l) == IF Truthy(l.endDate) THEN toMillis(l.endDate) ELSE l.endMs

\* C17: on the outstanding-management page and in the collaterals of the
\* admin page, overdueDays is ceil((now - endMs) / one day) when the end
\* instant resolves and lies before now and 0 otherwise, also for an end
\* date that is present but does not resolve; the late fee is
\* currentBalance x daily rate x overdueDays when overdueDays > 0, else 0.
C17_OverdueDaysAndLateFee ==
  /\ page.site = "outstanding" =>
       \A i \in 1..Len(page.loans) :
         FeeAsClaimed(OmEndInstant(page.loans[i]), page.now, page.loans[i].currentBalance,
                      page.loans[i].overdueDays, page.loans[i].lateAmt)
  /\ page.site = "admin" =>
       \A i \in 1..Len(page.collaterals) :
         FeeAsClaimed(page.collaterals[i].endMs, page.nowMs,
                      page.collaterals[i].currentBalance,
                      page.collaterals[i].overdueDays, page.collaterals[i].lateFee)

\* a loan overdue by more than one day and a fraction of a day, with a fee
C17_Witness ==
  /\ page.site = "outstanding"
  /\ HasRow
  /\ TheRow.endMs # NullMs
  /\ TheRow.overdueDays >= 2
  /\ (page.now - TheRow.endMs) % Day # 0
  /\ TheRow.lateAmt = TheRow.currentBalance * LateFeeDailyPerMille * TheRow.overdueDays
  /\ TheRow.lateAmt > 0

----------------------------------------------------------------------------
(* KYC backfill *)

BackfillFields == {"firstName", "surname", "areaName"}

\* the field of a KYC row that backfills field f of a loan
KycField(k, f) ==
  CASE f = "firstName" -> k.firstName
    [] f = "surname"   -> k.lastName
    [] f = "areaName"  -> k.physicalCity

Lacks(l) == \E f \in BackfillFields : l[f] = ""

\* the KYC rows that share a digit key with the mobile number of loan l
PhoneMatches(l) ==
  {k \in Range(kycPending) :
     Range(phoneKeys(l.mobile)) \cap Range(phoneKeys(k.mobile)) # {}}

\* C18: on the dashboard a field of a loan that was not empty is never
\* changed by the backfill, and a loan that lacks a first name, a surname or
\* an area and shares a digit key with a KYC record has each of its empty
\* fields filled from such a record.
C18_PhoneBackfill ==
  page.site \in {"dashboard", "admin"} =>
    \A i \in 1..Len(page.loans) :
      LET raw == page.loansRaw[i]
          out == page.loans[i]
      IN /\ \A f \in BackfillFields : raw[f] # "" => out[f] = raw[f]
         /\ Lacks(raw) /\ PhoneMatches(raw) # {} =>
              \E k \in PhoneMatches(raw) :
                \A f \in BackfillFields : raw[f] = "" => out[f] = KycField(k, f)

\* a loan with a first name only is matched through its phone: the surname
\* and the area come from the KYC record, the first name stays
C18_Witness ==
  /\ page.site \in {"dashboard", "admin"}
  /\ page.loans # <<>>
  /\ page.loansRaw[1].firstName = "Ann"
  /\ page.loansRaw[1].surname = ""
  /\ page.loansRaw[1].areaName = ""
  /\ \E k \in PhoneMatches(page.loansRaw[1]) : k.firstName = "Annie"
  /\ page.loans[1].firstName = "Ann"
  /\ page.loans[1].surname = "Banda"
  /\ page.loans[1].areaName = "Zomba"

\* the KYC rows whose trimmed, lower-cased (first name, last name) is that
\* of loan l
NameMatches(l) ==
  {k \in Range(kycPending) :
     /\ nameKey(l.firstName, l.surname) # <<>>
     /\ nameKey(k.firstName, k.lastName) = nameKey(l.firstName, l.surname)}

\* C19: a loan that lacks a field, has no phone match and has the name
\* of a KYC record has its empty fields filled from such a record.
C19_NameBackfill ==
  page.site \in {"dashboard", "admin"} =>
    \A i \in 1..Len(page.loans) :
      LET raw == page.loansRaw[i]
          out == page.loans[i]
      IN Lacks(raw) /\ PhoneMatches(raw) = {} /\ NameMatches(raw) # {} =>
           \E k \in NameMatches(raw) :
             \A f \in BackfillFields : raw[f] = "" => out[f] = KycField(k, f)

----------------------------------------------------------------------------
(* Alias resolution *)

\* the aliases each reader consults, in priority order
FirstNamesAt(site) ==
  CASE site \in {"dashboard", "admin"} -> FirstAliases
    [] site = "api"                     -> <<"firstName", "applicantFirstName">>
    [] site = "outstanding"             -> <<"firstName">>

SurnamesAt(site) ==
  CASE site \in {"dashboard", "admin"} -> LastAliases
    [] site = "api"                     -> <<"surname", "applicantLastName">>
    [] site = "outstanding"             -> <<"surname", "lastName">>

AreasAt(site) ==
  CASE site \in {"dashboard", "admin"} -> AreaAliases
    [] OTHER                            -> <<"areaName">>

MobilesAt(site) ==
  CASE site = "outstanding" -> <<"mobile", "mobileTel">>
    [] OTHER                -> <<"mobileTel", "mobile", "mobileTel1">>

\* C20: in every reader the name, the area and the mobile number of a row
\* are the value of the first alias that is present and not empty, and the
\* empty string when there is none (the rows are those read from the
\* store, before the KYC backfill; a loan with a full name in `name` has
\* its names taken from it and is left aside).
C20_FirstNonEmptyAlias ==
  HasRow =>
    LET row == IF page.site \in {"dashboard", "admin"} THEN page.loansRaw[1] ELSE TheRow
    IN /\ ~Has(RowDoc, "name") =>
            /\ row.firstName = FirstTruthy(RowDoc, FirstNamesAt(page.site), "")
            /\ row.surname = FirstTruthy(RowDoc, SurnamesAt(page.site), "")
       /\ row.areaName = FirstTruthy(RowDoc, AreasAt(page.site), "")
       /\ row.mobile = FirstTruthy(RowDoc, MobilesAt(page.site), <<>>)

----------------------------------------------------------------------------
(* The classification run as a projection *)

\* the view lists loans in the order in which the snapshot holds them
InOrderOf(view, loans) ==
  \A i, j \in 1..Len(view) : i < j =>
    \E m, n \in 1..Len(loans) : m < n /\ loans[m] = view[i] /\ loans[n] = view[j]

\* the slices of the run the page holds
PageSlices == derivedSlices(page.loans, page.now, page.soon)

\* C21: a classification run writes no collection, and once all views are
\* derived the array of the snapshot holds the same loans in the same order;
\* Recent applicants are its first 8 loans and Finished lists loans in the
\* order of the snapshot.
C21_PureProjection ==
  /\ [][UNCHANGED <<loan_applications, processed_loans, loan_payments, kyc_data,
                    calculations, loan_issuing>>]_vars
  /\ [](HasViews =>
          /\ PageSlices.loans = page.loans
          /\ PageSlices.recentApplicants = Slice(page.loans, 8)
          /\ InOrderOf(PageSlices.finished, page.loans)
          /\ PageSlices.outstandingTop = ViewOutstandingTop
          /\ PageSlices.deadlinesUpcoming = ViewDeadlines
          /\ PageSlices.overdueWithCollateral = ViewOverdue)

\* both sorted views order loans differently from the snapshot
C21_Witness ==
  /\ HasViews
  /\ Len(page.loans) > 8
  /\ Len(PageSlices.outstandingTop) = 6
  /\ ~InOrderOf(PageSlices.outstandingTop, page.loans)
  /\ Len(PageSlices.deadlinesUpcoming) > 1
  /\ ~InOrderOf(PageSlices.deadlinesUpcoming, page.loans)
  /\ Len(PageSlices.finished) > 1
  /\ PageSlices.loans = page.loans

----------------------------------------------------------------------------
(* Sign-in *)

\* the token of the account carries admin === true or officer === true
CarriesRole(email) ==
  LET c == Accounts[email].claims
  IN \/ Has(c, "admin") /\ c.admin = JsTrue
     \/ Has(c, "officer") /\ c.officer = JsTrue

----------------------------------------------------------------------------
(* The order of Outstanding *)

\* C23: Outstanding is in descending order of currentBalance, outstandingTop
\* is its first min(6, |Outstanding|) entries, and no Outstanding loan that
\* is left out of outstandingTop has a larger balance than one that is in it.
C23_OutstandingTopSix ==
  HasViews =>
    /\ \A i, j \in 1..Len(ViewOutstanding) :
         i < j => ViewOutstanding[i].currentBalance >= ViewOutstanding[j].currentBalance
    /\ Len(ViewOutstandingTop) = Min(6, Len(ViewOutstanding))
    /\ ViewOutstandingTop = SubSeq(ViewOutstanding, 1, Len(ViewOutstandingTop))
    /\ \A r \in Range(ViewOutstanding) :
         ~In(r, ViewOutstandingTop) =>
           \A q \in Range(ViewOutstandingTop) : r.currentBalance <= q.currentBalance

\* seven loans are outstanding; the one left out has the lowest balance and
\* comes earlier in the snapshot than a loan of outstandingTop
C23_Witness ==
  /\ HasViews
  /\ Len(ViewOutstanding) = 7
  /\ Len(ViewOutstandingTop) = 6
  /\ ViewOutstanding[7].currentBalance < ViewOutstandingTop[6].currentBalance
  /\ \E m, n \in 1..Len(page.loans) :
       m < n /\ page.loans[m] = ViewOutstanding[7] /\ page.loans[n] = ViewOutstandingTop[1]

----------------------------------------------------------------------------
(* Payments against the stored balance *)

\* the payments recorded for loan x, and their sum
PaymentsOf(x) == SelectSeq(loan_payments, LAMBDA q : q.loan = x)
PaidOf(x) == SumSeq(PaymentsOf(x), LAMBDA q : q.amount)

\* C24: when the balance update of the second payment recorded for a loan
\* is applied to a stored balance that reflects the first payment, the
\* stored balance becomes max(0, b - a1 - a2), b being the balance the loan
\* started with.
C24_NoLostPayment ==
  [][\A o \in ops :
       /\ PayUpdate(o, TRUE)
       /\ o.id \in DOMAIN loan_applications
       /\ Len(PaymentsOf(o.id)) = 2
       /\ StoredBalance(loan_applications[o.id]) =
            Max(0, StoredBalance(FlowLoan(o.id)) - (PaidOf(o.id) - o.arg.amount))
       => loan_applications'[o.id].currentBalance =
            Max(0, StoredBalance(FlowLoan(o.id)) - PaidOf(o.id))]_vars


\* C25: a payment whose step fails leaves nothing behind: when the addDoc
\* is rejected no payment record and no balance change is stored, and when
\* the balance update is rejected the payment record written before it is
\* no longer stored either.
C25_PaymentAllOrNothing ==
  [][/\ \A x \in LoanIds, text \in AmountInputs : HandleSave(x, text, FALSE) =>
          UNCHANGED <<loan_payments, loan_applications>>
     /\ \A o \in ops : PayUpdate(o, FALSE) =>
          /\ loan_applications' = loan_applications
          /\ PaidOf(o.id)' = PaidOf(o.id) - o.arg.amount]_vars

----------------------------------------------------------------------------
(* The two collections between operations *)

\* C26: whenever no Accept, Decline or Consider is in progress, no loan id
\* is in both loan_applications and processed_loans, and a loan that is in
\* loan_applications only after an Accept or Decline was started on it
\* carries the status it had before that decision.
C26_CollectionsDisjointWhenIdle ==
  ops = {} =>
    /\ DOMAIN loan_applications \cap DOMAIN processed_loans = {}
    /\ \A x \in DOMAIN loan_applications \ DOMAIN processed_loans :
         ~IsNull(decided[x]) => Str(loan_applications[x], "status") = Str(decided[x], "status")

----------------------------------------------------------------------------
(* The preview and the selected loan *)

\* C27: the preview that is shown was loaded from the selected loan, and
\* the processed record that Accept or Decline writes under id x, with its
\* copy of the original, was built from the loan with id x.
C27_PreviewOfSelectedLoan ==
  /\ [](modal.loanId # NoLoan /\ ~IsNull(modal.data) => modal.data.id = modal.loanId)
  /\ [][\A o \in ops : MoveSetDoc(o, TRUE) =>
          /\ o.arg.data.id = o.id
          /\ Has(processed_loans'[o.id].original, "id") =>
               processed_loans'[o.id].original.id = o.id]_vars

----------------------------------------------------------------------------
(* Decisions on decided proposals *)

\* C28: a decision made from a row that shows an earlier decision writes
\* nothing to loan_applications; in particular the loan created by the first
\* approval keeps its status and its currentBalance.
C28_DecisionOnlyOnPending ==
  [][\A o \in ops :
       o.kind = "decide" /\ ~IsNull(o.arg.p.decision) /\ IssueLoan(o, TRUE) =>
         /\ loan_applications' = loan_applications
         /\ o.id \in DOMAIN loan_applications =>
              /\ loan_applications'[o.id].status = loan_applications[o.id].status
              /\ loan_applications'[o.id].currentBalance =
                   loan_applications[o.id].currentBalance]_vars

----------------------------------------------------------------------------
(* The time anchor of the deadline window *)

\* C29: in every classification run of the dashboard that follows a
\* snapshot or a refresh, the horizon `soon` is exactly 14 days after the
\* instant `now` that the deadline comparisons use.
C29_HorizonFourteenDaysAfterNow ==
  page.site = "dashboard" /\ page.updatedAt # NullMs => page.soon - page.now = 14 * Day

----------------------------------------------------------------------------
(* The badge of unseen KYC records *)

\* the latest createdAt of the listed records, 0 for none
LatestCreatedAt(items) ==
  IF Len(items) = 0 THEN 0
  ELSE OrMs(items[CHOOSE i \in 1..Len(items) :
                    \A j \in 1..Len(items) : items[j].createdAt <= items[i].createdAt].createdAt, 0)

\* C30: on the KYC list page the badge always equals the number of listed
\* records whose createdAt is greater than the stored marker; the first load
\* without a stored marker stores the latest createdAt of the list and shows
\* 0; marking all as seen shows 0, and a later response shows more than 0
\* only when it lists a record with a createdAt greater than the marker.
C30_UnseenAgainstMarker ==
  /\ [](page.site = "kyc" => page.unseen = unseenCount(page.items, kycLastSeen))
  /\ [][\A ordered \in BOOLEAN :
          KycListData(ordered) =>
            /\ (kycLastSeen = 0 /\ LatestCreatedAt(page'.items) # 0) =>
                  /\ localStorage' = Merge(localStorage,
                                           [kycLastSeen |-> LatestCreatedAt(page'.items)])
                  /\ page'.unseen = 0
            /\ page'.unseen > 0 =>
                  \E i \in 1..Len(page'.items) : page'.items[i].createdAt > kycLastSeen]_vars
  /\ [][markAllSeen => page'.unseen = 0]_vars

====
